---------------------------- MODULE Spec2Model ----------------------------
(***************************************************************************)
(* A model of the Slack agent of robertomaluco-v2: the request handler     *)
(* (app.py handle_event), the Gemini provider's tool workflow              *)
(* (agent/gemini.py), the GitHub tool surface with its scoped active trace *)
(* span (agent/tools.py), the trace tree with its redacting serializer     *)
(* (logger.py) and the JSON extractor (json_utils.py).                     *)
(***************************************************************************)
EXTENDS Integers, Sequences, FiniteSets, TLC

(***************************************************************************)
(* Program constants.                                                      *)
(***************************************************************************)
\* gemini.py:59  for step_index in range(12)
StepLimit == 12
\* gemini.py:29  self.max_retries = 2
max_retries == 2
\* gemini.py:290 files[:500]
FilesCap == 500
\* logger.py:20  len(value) > 2000
TruncateAt == 2000
\* logger.py:52  finished_at: str | None = None   (0 stands for None)
NoTime == 0
\* logger.py:53  duration_ms: int | None = None   (-1 stands for None)
NoDuration == -1

(***************************************************************************)
(* Bounds of the model (not program constants).                            *)
(***************************************************************************)
\* Loop iterations (from the first) in which the oracle and the repository
\* host may answer anything of their repertoire; in later iterations only
\* one answer lets the loop go on, every failing answer staying possible.
VariedSteps == 1
\* Generation calls of a request (from the first) that may meet transport
\* failures (timeout, connection error) and be retried.
FlakyCalls == 1
\* Tool calls the oracle asks for, per request, when two requests run
\* concurrently.
ConcSteps == 1

(***************************************************************************)
(* Strings.  TLC gives Len, \o and SubSeq on strings; a character is a     *)
(* string of length 1.                                                     *)
(***************************************************************************)
Min(a, b) == IF a < b THEN a ELSE b

\* Python: s[i:i+1], 1-based; the empty string outside the text
Char(s, i) == IF 1 <= i /\ i <= Len(s) THEN SubSeq(s, i, i) ELSE ""

\* Python: sub in s
Contains(s, sub) ==
    \E i \in 1..(Len(s) - Len(sub) + 1) : SubSeq(s, i, i + Len(sub) - 1) = sub

\* Python: s.startswith(p)
StartsWith(s, p) == Len(s) >= Len(p) /\ SubSeq(s, 1, Len(p)) = p

\* Python: s.find(sub) as a 1-based index, 0 when absent
Find(s, sub) ==
    IF Contains(s, sub)
    THEN CHOOSE i \in 1..(Len(s) - Len(sub) + 1) :
            /\ SubSeq(s, i, i + Len(sub) - 1) = sub
            /\ \A j \in 1..(i - 1) : SubSeq(s, j, j + Len(sub) - 1) # sub
    ELSE 0

UpperChars == "ABCDEFGHIJKLMNOPQRSTUVWXYZ"
LowerChars == "abcdefghijklmnopqrstuvwxyz"

LowerChar(c) ==
    IF \E i \in 1..26 : Char(UpperChars, i) = c
    THEN Char(LowerChars, CHOOSE i \in 1..26 : Char(UpperChars, i) = c)
    ELSE c

(* An operation that walks a text character by character is written by
   halving, the left half first: the walk and its result are those of the
   loop, and the depth of TLC's evaluation stays logarithmic in the length. *)

\* Python: s.lower()
RECURSIVE Lower(_)
Lower(s) ==
    IF Len(s) <= 1 THEN LowerChar(s)
    ELSE Lower(SubSeq(s, 1, Len(s) \div 2)) \o Lower(SubSeq(s, Len(s) \div 2 + 1, Len(s)))

\* U+2028 LINE SEPARATOR, which a TLA+ string cannot hold: the caret stands for
\* it in every text of the model
LineSeparator == "^"

\* Python: c.isspace(), on the characters the model's texts hold
IsSpace(c) == c \in {" ", "\n", "\t", "\r", "\f", LineSeparator}

\* Python: s.lstrip()
LStrip(s) ==
    IF \A i \in 1..Len(s) : IsSpace(Char(s, i)) THEN ""
    ELSE SubSeq(s, CHOOSE i \in 1..Len(s) :
                       ~IsSpace(Char(s, i)) /\ \A j \in 1..(i - 1) : IsSpace(Char(s, j)),
                Len(s))

\* Python: s.rstrip()
RStrip(s) ==
    IF \A i \in 1..Len(s) : IsSpace(Char(s, i)) THEN ""
    ELSE SubSeq(s, 1, CHOOSE i \in 1..Len(s) :
                          ~IsSpace(Char(s, i)) /\ \A j \in (i + 1)..Len(s) : IsSpace(Char(s, j)))

\* Python: s.strip()
Strip(s) == RStrip(LStrip(s))

\* Python: s.replace(a, b) for a single character a
RECURSIVE ReplaceChar(_, _, _)
ReplaceChar(s, a, b) ==
    IF Len(s) <= 1 THEN (IF s = a THEN b ELSE s)
    ELSE ReplaceChar(SubSeq(s, 1, Len(s) \div 2), a, b)
            \o ReplaceChar(SubSeq(s, Len(s) \div 2 + 1, Len(s)), a, b)

\* Python: s.removesuffix(suf)
RemoveSuffix(s, suf) ==
    IF Len(s) >= Len(suf) /\ SubSeq(s, Len(s) - Len(suf) + 1, Len(s)) = suf
    THEN SubSeq(s, 1, Len(s) - Len(suf))
    ELSE s

\* Python: str(n) for the small numbers of the model
Digits == <<"0", "1", "2", "3", "4", "5", "6", "7", "8", "9">>
IntStr(n) == IF n < 10 THEN Digits[n + 1] ELSE Digits[((n \div 10) % 10) + 1] \o Digits[(n % 10) + 1]

(***************************************************************************)
(* Values of the trace data: Python str, int, bool/None, dict and list,    *)
(* each carrying its type so that isinstance can be asked.                 *)
(***************************************************************************)
S(s) == [t |-> "str", v |-> s]
N(n) == [t |-> "int", v |-> n]
D(f) == [t |-> "dict", v |-> f]
L(q) == [t |-> "list", v |-> q]
None == [t |-> "none", v |-> 0]

IsStr(x, s) == x.t = "str" /\ x.v = s

\* Python: d.update(e) on mappings held as functions from keys
Update(d, e) ==
    [k \in (DOMAIN d) \cup (DOMAIN e) |-> IF k \in DOMAIN e THEN e[k] ELSE d[k]]

EmptyDict == [k \in {} |-> None]

(***************************************************************************)
(* logger.py: redaction, events, spans, the request trace.                 *)
(***************************************************************************)
RedactWords == <<"token", "authorization", "api_key", "secret">>

RedactWordsUpper == <<"TOKEN", "AUTHORIZATION", "API_KEY", "SECRET">>

\* value.lower() holds the word exactly where value reads, from some position
\* on, each character of the word in either case
ReadsWordAt(s, i, w) ==
    /\ i + Len(RedactWords[w]) - 1 <= Len(s)
    /\ \A j \in 1..Len(RedactWords[w]) :
            \/ SubSeq(s, i + j - 1, i + j - 1) = SubSeq(RedactWords[w], j, j)
            \/ SubSeq(s, i + j - 1, i + j - 1) = SubSeq(RedactWordsUpper[w], j, j)

\* logger.py:17-18  any(token in lowered for token in (...)), lowered = value.lower()
RedactInitials == {"t", "a", "s", "T", "A", "S"}
HasRedactWord(s) ==
    \E i \in 1..Len(s) :
        /\ SubSeq(s, i, i) \in RedactInitials
        /\ \E w \in 1..Len(RedactWords) : ReadsWordAt(s, i, w)

\* a slip the redaction could have: the test made on the string as given
safe_value_cased(x) ==
    IF x.t = "str" /\ \E w \in 1..Len(RedactWords) : Contains(x.v, RedactWords[w])
    THEN S("[REDACTED]")
    ELSE x

\* logger.py:15-27  _safe_value
RECURSIVE safe_value(_)
safe_value(x) ==
    CASE x.t = "str" ->
            IF HasRedactWord(x.v) THEN S("[REDACTED]")
            ELSE IF Len(x.v) > TruncateAt
                 THEN S(SubSeq(x.v, 1, TruncateAt) \o "...[truncated]")
                 ELSE x
      [] x.t = "dict" -> D([k \in DOMAIN x.v |-> safe_value(x.v[k])])
      [] x.t = "list" -> L([i \in DOMAIN x.v |-> safe_value(x.v[i])])
      [] OTHER -> x

\* a slip the redaction could have: the values replaced in the mapping given
safe_value_in_place(x) == safe_value(x)

\* logger.py:15-27  what _safe_value leaves of its argument: it assigns to no
\* item of value, the dict and the list it returns are new ones
safe_value_leaves(x) == x

\* logger.py:31-35  TraceEvent(name, status, timestamp, data)
TraceEvent(name, status, data, now) ==
    [name |-> name, status |-> status, timestamp |-> now, data |-> data]

\* logger.py:37-43  TraceEvent.as_dict
event_as_dict(e) ==
    [name |-> e.name, status |-> e.status, timestamp |-> e.timestamp,
     data |-> safe_value(D(e.data)).v]

\* logger.py:47-56  TraceSpan(name, data): a fresh span, in progress
TraceSpan(name, data, now) ==
    [name |-> name, status |-> "in_progress", started_at |-> now,
     started_at_monotonic |-> now, finished_at |-> NoTime,
     duration_ms |-> NoDuration, data |-> data, events |-> <<>>,
     children |-> <<>>]

(* A trace tree is held as the sequence of its spans in creation order, the
   root first; a span's children are the positions of its child spans. *)

\* logger.py:58-59  TraceSpan.event on span i of the tree sp
span_event(sp, i, name, status, data, now) ==
    [sp EXCEPT ![i].events = Append(@, TraceEvent(name, status, data, now))]

\* a slip child could have: the new span hung on the first span of the tree
span_child_of_first(sp, i, name, data, now) ==
    [Append(sp, TraceSpan(name, data, now)) EXCEPT ![1].children = Append(@, Len(sp) + 1)]

\* logger.py:61-64  TraceSpan.child on span i; the child is span Len(sp) + 1
span_child(sp, i, name, data, now) ==
    [Append(sp, TraceSpan(name, data, now)) EXCEPT ![i].children = Append(@, Len(sp) + 1)]

\* a slip finish could have: no early return on a finished span
span_finish_again(sp, i, status, data, now) ==
    [sp EXCEPT ![i].status = status,
               ![i].finished_at = now,
               ![i].duration_ms = (now - sp[i].started_at_monotonic) * 1000,
               ![i].data = Update(@, data)]

\* logger.py:66-73  TraceSpan.finish on span i
span_finish(sp, i, status, data, now) ==
    IF sp[i].finished_at # NoTime
    THEN sp
    ELSE [sp EXCEPT ![i].status = status,
                    ![i].finished_at = now,
                    ![i].duration_ms = (now - sp[i].started_at_monotonic) * 1000,
                    ![i].data = Update(@, data)]

\* logger.py:75-85  TraceSpan.as_dict of span i
RECURSIVE span_as_dict(_, _)
span_as_dict(sp, i) ==
    [name |-> sp[i].name, status |-> sp[i].status, started_at |-> sp[i].started_at,
     finished_at |-> sp[i].finished_at, duration_ms |-> sp[i].duration_ms,
     data |-> safe_value(D(sp[i].data)).v,
     events |-> [e \in DOMAIN sp[i].events |-> event_as_dict(sp[i].events[e])],
     children |-> [c \in DOMAIN sp[i].children |-> span_as_dict(sp, sp[i].children[c])]]

\* logger.py:89-93  RequestTrace(request_id, metadata): the root span is span 1
RequestTrace(request_id, metadata, now) ==
    [request_id |-> request_id, metadata |-> metadata, started_at |-> now,
     spans |-> <<TraceSpan("request.lifecycle", EmptyDict, now)>>]

Root == 1

\* logger.py:101-107  RequestTrace.as_dict
trace_as_dict(tr) ==
    [request_id |-> tr.request_id, started_at |-> tr.started_at,
     metadata |-> safe_value(D(tr.metadata)).v,
     trace |-> span_as_dict(tr.spans, Root)]

\* logger.py:37-43, 75-85, 101-107  the trace as the as_dict calls leave it:
\* they read the fields and hand each data mapping to _safe_value
trace_after_as_dict(tr) ==
    [tr EXCEPT
        !.metadata = safe_value_leaves(D(@)).v,
        !.spans = [i \in DOMAIN @ |->
            [@[i] EXCEPT
                !.data = safe_value_leaves(D(@)).v,
                !.events = [e \in DOMAIN @ |-> [@[e] EXCEPT !.data = safe_value_leaves(D(@)).v]]]]]

(***************************************************************************)
(* agent/modes.py: mode detection.                                         *)
(***************************************************************************)
\* modes.py:15-22
PLAN_HINTS ==
    <<"plan mode", "make a plan", "create a plan", "before you code",
      "implementation plan", "review before coding">>

\* modes.py:24-37
CODE_HINTS ==
    <<"feature", "implement", "ship", "build", "code", "refactor", "bug", "fix",
      "repository", "repo", "pull request", "pr">>

\* the first hint of the tuple that occurs in s, 0 when none does
FirstHint(hints, s) ==
    IF \E h \in 1..Len(hints) : Contains(s, hints[h])
    THEN CHOOSE h \in 1..Len(hints) :
            /\ Contains(s, hints[h])
            /\ \A g \in 1..(h - 1) : ~Contains(s, hints[g])
    ELSE 0

\* a slip detect_mode could have: code hints sending the request to chat mode
detect_mode_code_is_chat(prompt) ==
    LET normalized == Lower(Strip(prompt))
        p == FirstHint(PLAN_HINTS, normalized)
    IN  IF p # 0 THEN [mode |-> "plan", reason |-> "matched_hint:" \o PLAN_HINTS[p]]
        ELSE [mode |-> "chat", reason |-> "default"]

\* modes.py:39-47  detect_mode
detect_mode(prompt) ==
    LET normalized == Lower(Strip(prompt))
        p == FirstHint(PLAN_HINTS, normalized)
        c == FirstHint(CODE_HINTS, normalized)
    IN  IF p # 0 THEN [mode |-> "plan", reason |-> "matched_hint:" \o PLAN_HINTS[p]]
        ELSE IF c # 0
             THEN [mode |-> "plan", reason |-> "matched_code_hint:" \o CODE_HINTS[c]]
             ELSE [mode |-> "chat", reason |-> "default"]

(***************************************************************************)
(* agent/gemini.py: repository detection.                                  *)
(***************************************************************************)
SlugChars == "ABCDEFGHIJKLMNOPQRSTUVWXYZabcdefghijklmnopqrstuvwxyz0123456789_.-"

\* a character of the class [A-Za-z0-9_.-]
IsSlugChar(c) == Len(c) = 1 /\ Contains(SlugChars, c)

\* the length of the longest run of slug characters of s that starts at i
SlugRun(s, i) ==
    IF \A j \in i..Len(s) : IsSlugChar(Char(s, j)) THEN Len(s) - i + 1
    ELSE (CHOOSE j \in i..Len(s) :
              ~IsSlugChar(Char(s, j)) /\ \A k \in i..(j - 1) : IsSlugChar(Char(s, k))) - i

RepoUrlPrefix == "https://github.com/"

\* the pattern https://github\.com/([A-Za-z0-9_.-]+)/([A-Za-z0-9_.-]+) at i
RepoUrlAt(s, i) ==
    LET o == i + Len(RepoUrlPrefix)
        on == SlugRun(s, o)
    IN  /\ o - 1 <= Len(s)
        /\ SubSeq(s, i, o - 1) = RepoUrlPrefix
        /\ on >= 1
        /\ Char(s, o + on) = "/"
        /\ SlugRun(s, o + on + 1) >= 1

NoAccess == [owner |-> "", repo |-> "", branch |-> "", valid |-> FALSE]

\* tools.py:14-38  RepoAccess(owner, repo, branch): sanitize_slug drops a
\* trailing .git of either slug, and each field needs at least one character
RepoAccess(owner, repo, branch) ==
    LET o == RemoveSuffix(Strip(owner), ".git")
        p == RemoveSuffix(Strip(repo), ".git")
    IN  [owner |-> o, repo |-> p, branch |-> branch,
         valid |-> (Len(o) >= 1 /\ Len(p) >= 1 /\ Len(branch) >= 1)]

\* whether re.search finds the pattern in the prompt
HasRepoUrl(prompt) ==
    LET cleaned == ReplaceChar(ReplaceChar(prompt, "<", " "), ">", " ")
    IN  \E i \in 1..Len(cleaned) : RepoUrlAt(cleaned, i)

\* a slip the detection could have: a default repository when the text names none
extract_repo_access_default(prompt) == RepoAccess("acme", "widgets", "main")

\* gemini.py:193-200  _extract_repo_access (NoAccess stands for None)
extract_repo_access(prompt) ==
    LET cleaned == ReplaceChar(ReplaceChar(prompt, "<", " "), ">", " ")
    IN  IF ~\E i \in 1..Len(cleaned) : RepoUrlAt(cleaned, i)
        THEN NoAccess
        ELSE LET i  == CHOOSE j \in 1..Len(cleaned) :
                          /\ RepoUrlAt(cleaned, j)
                          /\ \A k \in 1..(j - 1) : ~RepoUrlAt(cleaned, k)
                 o  == i + Len(RepoUrlPrefix)
                 on == SlugRun(cleaned, o)
                 rn == SlugRun(cleaned, o + on + 1)
                 owner == SubSeq(cleaned, o, o + on - 1)
                 repo  == RemoveSuffix(SubSeq(cleaned, o + on + 1, o + on + rn), ".git")
             IN  RepoAccess(owner, repo, "main")

(***************************************************************************)
(* json_utils.py: the extractor of the first JSON object of a text.        *)
(***************************************************************************)
\* Python: the characters str.splitlines() ends a line at
IsLineEnd(c) == c \in {"\n", "\r", "\f", LineSeparator}

\* Python: s.splitlines(); \r\n ends one line
RECURSIVE SplitLines(_)
SplitLines(s) ==
    IF s = "" THEN <<>>
    ELSE IF \A i \in 1..Len(s) : ~IsLineEnd(Char(s, i)) THEN <<s>>
    ELSE LET n == CHOOSE i \in 1..Len(s) :
                    IsLineEnd(Char(s, i)) /\ \A j \in 1..(i - 1) : ~IsLineEnd(Char(s, j))
         IN  <<SubSeq(s, 1, n - 1)>>
                \o SplitLines(SubSeq(s, IF Char(s, n) = "\r" /\ Char(s, n + 1) = "\n" THEN n + 2 ELSE n + 1,
                                     Len(s)))

\* Python: "\n".join(lines)
RECURSIVE JoinLines(_)
JoinLines(lines) ==
    IF lines = <<>> THEN ""
    ELSE IF Len(lines) = 1 THEN lines[1]
         ELSE lines[1] \o "\n" \o JoinLines(Tail(lines))

\* json_utils.py:8  the fence marker: three backticks.  A TLA+ string cannot
\* hold a backtick; the apostrophe stands for it in every text of the model.
Fence == "'''"

\* json_utils.py:6-16  strip_code_fences
strip_code_fences(text) ==
    LET stripped == Strip(text)
    IN  IF ~StartsWith(stripped, Fence) THEN stripped
        ELSE LET lines  == SplitLines(stripped)
                 lines1 == IF lines # <<>> /\ StartsWith(lines[1], Fence)
                           THEN Tail(lines) ELSE lines
                 lines2 == IF lines1 # <<>> /\ Strip(lines1[Len(lines1)]) = Fence
                           THEN SubSeq(lines1, 1, Len(lines1) - 1) ELSE lines1
             IN  Strip(JoinLines(lines2))

\* a slip the scan could have: a backslash in a string not taken as an escape
scan_char_no_escape(st, index, char) ==
    IF st.end # 0 THEN st
    ELSE IF st.in_string
         THEN IF char = "\"" THEN [st EXCEPT !.in_string = FALSE] ELSE st
         ELSE IF char = "\"" THEN [st EXCEPT !.in_string = TRUE]
              ELSE IF char = "{" THEN [st EXCEPT !.depth = @ + 1]
              ELSE IF char = "}"
                   THEN IF st.depth - 1 = 0
                        THEN [st EXCEPT !.depth = 0, !.end = index]
                        ELSE [st EXCEPT !.depth = @ - 1]
                   ELSE st

\* json_utils.py:31-48  the body of the scan loop for one character: st holds
\* depth, in_string, escaped and end (0 stands for -1); once end is set the
\* loop has left by its break
scan_char(st, index, char) ==
    IF st.end # 0 THEN st
    ELSE IF st.in_string
         THEN IF st.escaped THEN [st EXCEPT !.escaped = FALSE]
              ELSE IF char = "\\" THEN [st EXCEPT !.escaped = TRUE]
              ELSE IF char = "\"" THEN [st EXCEPT !.in_string = FALSE]
              ELSE st
         ELSE IF char = "\"" THEN [st EXCEPT !.in_string = TRUE]
              ELSE IF char = "{" THEN [st EXCEPT !.depth = @ + 1]
              ELSE IF char = "}"
                   THEN IF st.depth - 1 = 0
                        THEN [st EXCEPT !.depth = 0, !.end = index]
                        ELSE [st EXCEPT !.depth = @ - 1]
                   ELSE st

\* json_utils.py:30  for index, char in enumerate(candidate[start:], start=start),
\* over the characters lo..hi of s
RECURSIVE scan(_, _, _, _)
scan(st, s, lo, hi) ==
    IF lo > hi THEN st
    ELSE IF lo = hi THEN scan_char(st, lo, Char(s, lo))
    ELSE LET left == scan(st, s, lo, (lo + hi) \div 2)
         IN  IF left.end # 0 THEN left
             ELSE scan(left, s, (lo + hi) \div 2 + 1, hi)

\* json_utils.py:25-28  depth = 0, in_string = False, escaped = False, end = -1
ScanInit == [depth |-> 0, in_string |-> FALSE, escaped |-> FALSE, end |-> 0]

(* json.loads is the library's parser: on the object texts the model's oracle
   can write its value is tabulated (JsonDocs); on any other text it is
   computed by json_parse below, which fails where json.loads raises
   JSONDecodeError (a ValueError). *)
TextFinal == "{\"type\":\"final\",\"message\":\"Created PR #4\"}"
TextGetDefaultBranch == "{\"type\":\"tool_call\",\"tool\":\"get_default_branch\",\"arguments\":{}}"
TextListFiles == "{\"type\":\"tool_call\",\"tool\":\"list_files\",\"arguments\":{}}"
TextDeleteRepo == "{\"type\":\"tool_call\",\"tool\":\"delete_repo\",\"arguments\":{}}"
TextReadFile == "{\"type\":\"tool_call\",\"tool\":\"read_file\",\"arguments\":{\"path\":\"a.py\",\"branch\":\"dev\"}}"
TextReadFileNoPath == "{\"type\":\"tool_call\",\"tool\":\"read_file\",\"arguments\":{}}"
TextWriteFile == "{\"type\":\"tool_call\",\"tool\":\"write_file\",\"arguments\":{\"path\":\"a.py\",\"content\":\"x = {}\",\"commit_message\":\"fix\"}}"
TextWriteFileNoContent == "{\"type\":\"tool_call\",\"tool\":\"write_file\",\"arguments\":{\"path\":\"a.py\",\"commit_message\":\"fix\"}}"
TextCreateBranch == "{\"type\":\"tool_call\",\"tool\":\"create_branch\",\"arguments\":{\"new_branch\":\"fix-1\"}}"
TextCreateBranchFrom == "{\"type\":\"tool_call\",\"tool\":\"create_branch\",\"arguments\":{\"new_branch\":\"fix-1\",\"from_branch\":\"dev\"}}"
TextCreateBranchNoName == "{\"type\":\"tool_call\",\"tool\":\"create_branch\",\"arguments\":{}}"
TextCreatePullRequest == "{\"type\":\"tool_call\",\"tool\":\"create_pull_request\",\"arguments\":{\"title\":\"Fix\",\"head_branch\":\"fix-1\"}}"
TextCreatePullRequestNoHead == "{\"type\":\"tool_call\",\"tool\":\"create_pull_request\",\"arguments\":{\"title\":\"Fix\"}}"
TextToolCallNoTool == "{\"type\":\"tool_call\"}"
TextToolCallNoArguments == "{\"type\":\"tool_call\",\"tool\":\"get_default_branch\"}"
TextFinalNoMessage == "{\"type\":\"final\",\"message\":\"\"}"
TextThought == "{\"type\":\"thought\",\"message\":\"hm\"}"
TextNoType == "{\"message\":\"done\"}"
TextPlan == "{\"objective\":\"cache\",\"implementation_steps\":[{\"title\":\"a\",\"details\":\"b\"}]}"
TextPlanNoSteps == "{\"objective\":\"cache\"}"
TextBadJson == "{type: final}"

ToolCall(tool, arguments) ==
    D([type |-> S("tool_call"), tool |-> S(tool), arguments |-> D(arguments)])

JsonDocs ==
    <<[raw |-> TextFinal, value |-> D([type |-> S("final"), message |-> S("Created PR #4")])],
      [raw |-> TextGetDefaultBranch, value |-> ToolCall("get_default_branch", EmptyDict)],
      [raw |-> TextListFiles, value |-> ToolCall("list_files", EmptyDict)],
      [raw |-> TextDeleteRepo, value |-> ToolCall("delete_repo", EmptyDict)],
      [raw |-> TextReadFile,
       value |-> ToolCall("read_file", [path |-> S("a.py"), branch |-> S("dev")])],
      [raw |-> TextReadFileNoPath, value |-> ToolCall("read_file", EmptyDict)],
      [raw |-> TextWriteFile,
       value |-> ToolCall("write_file", [path |-> S("a.py"), content |-> S("x = {}"),
                                         commit_message |-> S("fix")])],
      [raw |-> TextWriteFileNoContent,
       value |-> ToolCall("write_file", [path |-> S("a.py"), commit_message |-> S("fix")])],
      [raw |-> TextCreateBranch,
       value |-> ToolCall("create_branch", [new_branch |-> S("fix-1")])],
      [raw |-> TextCreateBranchFrom,
       value |-> ToolCall("create_branch", [new_branch |-> S("fix-1"), from_branch |-> S("dev")])],
      [raw |-> TextCreateBranchNoName, value |-> ToolCall("create_branch", EmptyDict)],
      [raw |-> TextCreatePullRequest,
       value |-> ToolCall("create_pull_request", [title |-> S("Fix"), head_branch |-> S("fix-1")])],
      [raw |-> TextCreatePullRequestNoHead,
       value |-> ToolCall("create_pull_request", [title |-> S("Fix")])],
      [raw |-> TextToolCallNoTool, value |-> D([type |-> S("tool_call")])],
      [raw |-> TextToolCallNoArguments,
       value |-> D([type |-> S("tool_call"), tool |-> S("get_default_branch")])],
      [raw |-> TextFinalNoMessage, value |-> D([type |-> S("final"), message |-> S("")])],
      [raw |-> TextThought, value |-> D([type |-> S("thought"), message |-> S("hm")])],
      [raw |-> TextNoType, value |-> D([message |-> S("done")])],
      [raw |-> TextPlan,
       value |-> D([objective |-> S("cache"),
                    implementation_steps |->
                        L(<<D([title |-> S("a"), details |-> S("b")])>>)])],
      [raw |-> TextPlanNoSteps, value |-> D([objective |-> S("cache")])]>>

(* The parser itself, for any other text: objects, arrays, strings with the
   escapes \" \\ \/ \n \t \r, unsigned integers, true, false and null, with
   JSON's whitespace between them.  A value is parsed from position i of s
   into [ok, v, next], next being the position after it. *)
JsonFail == [ok |-> FALSE, v |-> None, next |-> 0]
JsonDone(v, next) == [ok |-> TRUE, v |-> v, next |-> next]

\* the first position from i on that holds no JSON whitespace
skip_ws(s, i) ==
    CHOOSE j \in i..(Len(s) + 1) :
        /\ Char(s, j) \notin {" ", "\t", "\n", "\r"}
        /\ \A k \in i..(j - 1) : Char(s, k) \in {" ", "\t", "\n", "\r"}

\* the character an escape stands for, "" when json.loads knows none
Unescaped(e) ==
    CASE e \in {"\"", "\\", "/"} -> e
      [] e = "n" -> "\n"
      [] e = "t" -> "\t"
      [] e = "r" -> "\r"
      [] OTHER -> ""

\* a string from the position after its opening quote: a raw control character
\* is refused (json.loads is strict), an escape is decoded
RECURSIVE json_string(_, _, _)
json_string(s, i, acc) ==
    CASE Char(s, i) = "" -> JsonFail
      [] Char(s, i) = "\"" -> JsonDone(S(acc), i + 1)
      [] Char(s, i) = "\\" ->
            IF Unescaped(Char(s, i + 1)) = "" THEN JsonFail
            ELSE json_string(s, i + 2, acc \o Unescaped(Char(s, i + 1)))
      [] Char(s, i) \in {"\n", "\t", "\r", "\f"} -> JsonFail
      [] OTHER -> json_string(s, i + 1, acc \o Char(s, i))

DigitChars == "0123456789"
IsDigit(c) == c # "" /\ Contains(DigitChars, c)

\* an unsigned integer from position i, n being the digits read so far
RECURSIVE json_int(_, _, _)
json_int(s, i, n) ==
    IF IsDigit(Char(s, i)) THEN json_int(s, i + 1, 10 * n + Find(DigitChars, Char(s, i)) - 1)
    ELSE JsonDone(N(n), i)

RECURSIVE json_value(_, _)
RECURSIVE json_members(_, _, _)
RECURSIVE json_elements(_, _, _)

\* after a member's value: a comma and the next member, or the closing brace
json_member_end(s, acc, j) ==
    CASE Char(s, j) = "," -> json_members(s, skip_ws(s, j + 1), acc)
      [] Char(s, j) = "}" -> JsonDone(D(acc), j + 1)
      [] OTHER -> JsonFail

json_member_value(s, acc, key, val) ==
    IF ~val.ok THEN JsonFail
    ELSE json_member_end(s, Update(acc, [k \in {key} |-> val.v]), skip_ws(s, val.next))

json_member_colon(s, acc, key, j) ==
    IF Char(s, j) # ":" THEN JsonFail
    ELSE json_member_value(s, acc, key, json_value(s, skip_ws(s, j + 1)))

json_member_key(s, acc, key) ==
    IF ~key.ok THEN JsonFail
    ELSE json_member_colon(s, acc, key.v.v, skip_ws(s, key.next))

\* the members of an object from position i, which must hold a key
json_members(s, i, acc) ==
    IF Char(s, i) # "\"" THEN JsonFail
    ELSE json_member_key(s, acc, json_string(s, i + 1, ""))

json_element_end(s, acc, j) ==
    CASE Char(s, j) = "," -> json_elements(s, skip_ws(s, j + 1), acc)
      [] Char(s, j) = "]" -> JsonDone(L(acc), j + 1)
      [] OTHER -> JsonFail

json_element_value(s, acc, val) ==
    IF ~val.ok THEN JsonFail
    ELSE json_element_end(s, Append(acc, val.v), skip_ws(s, val.next))

\* the elements of an array from position i
json_elements(s, i, acc) == json_element_value(s, acc, json_value(s, i))

json_object(s, j) ==
    IF Char(s, j) = "}" THEN JsonDone(D(EmptyDict), j + 1) ELSE json_members(s, j, EmptyDict)

json_array(s, j) ==
    IF Char(s, j) = "]" THEN JsonDone(L(<<>>), j + 1) ELSE json_elements(s, j, <<>>)

\* the value that begins at position i
json_value(s, i) ==
    CASE Char(s, i) = "{" -> json_object(s, skip_ws(s, i + 1))
      [] Char(s, i) = "[" -> json_array(s, skip_ws(s, i + 1))
      [] Char(s, i) = "\"" -> json_string(s, i + 1, "")
      [] IsDigit(Char(s, i)) -> json_int(s, i, 0)
      [] SubSeq(s, i, Min(i + 3, Len(s))) = "true" -> JsonDone([t |-> "bool", v |-> TRUE], i + 4)
      [] SubSeq(s, i, Min(i + 4, Len(s))) = "false" -> JsonDone([t |-> "bool", v |-> FALSE], i + 5)
      [] SubSeq(s, i, Min(i + 3, Len(s))) = "null" -> JsonDone(None, i + 4)
      [] OTHER -> JsonFail

\* one value, and nothing but whitespace around it
json_parsed(s, val) ==
    IF val.ok /\ skip_ws(s, val.next) = Len(s) + 1
    THEN [ok |-> TRUE, value |-> val.v]
    ELSE [ok |-> FALSE, value |-> None]

json_parse(s) == json_parsed(s, json_value(s, skip_ws(s, 1)))

\* json_utils.py:55  json.loads(raw)
json_loads(raw) ==
    IF \E d \in 1..Len(JsonDocs) : JsonDocs[d].raw = raw
    THEN [ok |-> TRUE, value |-> JsonDocs[CHOOSE d \in 1..Len(JsonDocs) : JsonDocs[d].raw = raw].value]
    ELSE json_parse(raw)

ExtractError(msg) == [ok |-> FALSE, error |-> msg, payload |-> None, trailing |-> ""]

\* json_utils.py:55-58  the decoded value must be an object
extract_loaded(loaded, trailing) ==
    IF ~loaded.ok THEN ExtractError("JSONDecodeError")
    ELSE IF loaded.value.t # "dict"
    THEN ExtractError("Top-level JSON payload must be an object")
    ELSE [ok |-> TRUE, error |-> "", payload |-> loaded.value, trailing |-> trailing]

\* a slip the extractor could have: the trailing text taken from the closing brace
extract_span_from_brace(candidate, start, end) ==
    IF end = 0 THEN ExtractError("Unterminated JSON object in text")
    ELSE extract_loaded(json_loads(SubSeq(candidate, start, end)),
                        Strip(SubSeq(candidate, end, Len(candidate))))

\* json_utils.py:50-55  raw and trailing, once the scan has ended
extract_span(candidate, start, end) ==
    IF end = 0 THEN ExtractError("Unterminated JSON object in text")
    ELSE extract_loaded(json_loads(SubSeq(candidate, start, end)),
                        Strip(SubSeq(candidate, end + 1, Len(candidate))))

\* a slip the extractor could have: an object that never closes taken to the
\* end of the text
extract_from_to_end(candidate, start) ==
    IF start = 0 THEN ExtractError("No JSON object found in text")
    ELSE extract_loaded(json_loads(SubSeq(candidate, start, Len(candidate))), "")

\* json_utils.py:21-48  the first brace, and the scan from it
extract_from(candidate, start) ==
    IF start = 0 THEN ExtractError("No JSON object found in text")
    ELSE extract_span(candidate, start, scan(ScanInit, candidate, start, Len(candidate)).end)

extract_candidate(candidate) == extract_from(candidate, Find(candidate, "{"))

\* json_utils.py:19-58  extract_first_json_object
extract_first_json_object(text) == extract_candidate(strip_code_fences(text))

(***************************************************************************)
(* The environment: Slack events, the generation oracle, the repository    *)
(* host.  Each is a small repertoire the actions draw from.                *)
(***************************************************************************)
\* event["text"] of the Slack events the handler is given
Prompts ==
    {"hello there",
     "make a plan for the cache",
     "fix bug in https://github.com/acme/widgets",
     "look at https://github.com/acme/widgets",
     "see <https://github.com/acme/widgets.git>",
     ""}

TextGarbage == "I cannot do that."
TextFenced == "'''json\n" \o TextListFiles \o "\n'''"
TextTrailing == TextGetDefaultBranch \o " Done."

\* what the oracle may write in a loop iteration that may answer anything
StepTexts ==
    {TextFinal, TextGetDefaultBranch, TextListFiles, TextDeleteRepo, TextReadFile,
     TextReadFileNoPath, TextWriteFile, TextWriteFileNoContent, TextCreateBranch,
     TextCreateBranchFrom, TextCreateBranchNoName, TextCreatePullRequest,
     TextCreatePullRequestNoHead, TextToolCallNoTool, TextToolCallNoArguments,
     TextFinalNoMessage, TextThought, TextNoType, TextBadJson, TextGarbage,
     TextFenced, TextTrailing}

\* what it may write in the later iterations: one tool by turns, the final answer
TailTexts(turns, iteration) == {turns[((iteration - 1) % Len(turns)) + 1], TextFinal}

\* and when it may go wrong
WrongTexts == {TextDeleteRepo, TextGarbage}

\* what it may write when asked for a direct answer
DirectTexts == {"Hello!", TextPlan, TextPlanNoSteps}

\* whether the text asks for a tool call (it decodes to type tool_call)
IsToolCall(ex) == ex.ok /\ "type" \in DOMAIN ex.payload.v /\ IsStr(ex.payload.v.type, "tool_call")
IsToolCallText(text) == IsToolCall(extract_first_json_object(text))

(***************************************************************************)
(* State.                                                                  *)
(***************************************************************************)
Reqs == {1, 2}

VARIABLES
    pc,           \* [Reqs -> the position of the request's control flow]
    loc,          \* [Reqs -> the locals of handle_event, respond and their callees]
    trace,        \* [Reqs -> the RequestTrace of the request]
    history,      \* [Reqs -> respond's history list]
    now,          \* [Reqs -> the clock as the request reads it]
    active,       \* GithubTools._active_trace_span of the one tools instance
    token,        \* whether GithubTools.token is set
    said,         \* [Reqs -> the texts given to say, in order]
    persisted,    \* [Reqs -> the documents TraceStore.persist printed, in order]
    calls,        \* [Reqs -> the calls the request made on its collaborators, in order]
    env,          \* the repertoire of the environment: tool_answers, the tool calls the
                  \* oracle asks for per request at most; varied, the phases (the access
                  \* check, then the iterations) that may meet any answer; flaky, the
                  \* generation calls that may meet transport failures; prompts, the texts
                  \* of the events; turns, the tool calls of the later iterations; faults,
                  \* whether the oracle and the host may fail in any phase
    fin,          \* the span tree a sequence of span operations is applied to
    finlog,       \* the finish calls made on it, each with the tree it found
    red,          \* a data mapping and its serialization
    ext,          \* a text given to extract_first_json_object, and what it returned
    lst,          \* a tree document given to list_files, and the tool's result
    scp           \* the with_trace scopes one control flow has open: the previous
                  \* span each holds, the active span each found, and the exits so far

wfVars == <<pc, loc, trace, history, now, active, token, said, persisted, calls, env>>
pureVars == <<fin, finlog, red, ext, lst, scp>>
vars == <<pc, loc, trace, history, now, active, token, said, persisted, calls,
          env, fin, finlog, red, ext, lst, scp>>

NoSpan == [req |-> 0, span |-> 0]
NoExc == [type |-> "", msg |-> ""]
NoTrace == [request_id |-> "", metadata |-> EmptyDict, started_at |-> NoTime, spans |-> <<>>]
NoCall == [method |-> "", kind |-> "", path |-> "", payload |-> EmptyDict]

RuntimeError(msg) == [type |-> "RuntimeError", msg |-> msg]

InitLoc ==
    [text |-> "", mode |-> "", provider_span |-> 0, llm_span |-> 0, step_span |-> 0,
     tool_span |-> 0, gen_span |-> 0, gen_for |-> "", gen_calls |-> 0, attempt |-> 0,
     access |-> NoAccess, iterations |-> 0, step_index |-> 0,
     model_text |-> "", action |-> None, exc |-> NoExc,
     response |-> "", outgoing_text |-> "",
     scope |-> "", scope_span |-> NoSpan, previous |-> NoSpan,
     stack |-> <<>>, at |-> 0, call |-> NoCall,
     ret_ok |-> TRUE, ret_val |-> None, ret_exc |-> NoExc, vars |-> EmptyDict]

\* an entry of calls: op names the collaborator, a and b what was asked, n a number
Entry(op, a, b, n) == [op |-> op, a |-> a, b |-> b, n |-> n]

WfInit ==
    /\ pc = [r \in Reqs |-> "idle"]
    /\ loc = [r \in Reqs |-> InitLoc]
    /\ trace = [r \in Reqs |-> NoTrace]
    /\ history = [r \in Reqs |-> <<>>]
    /\ now = [r \in Reqs |-> 1]
    /\ active = NoSpan
    /\ token \in BOOLEAN
    /\ said = [r \in Reqs |-> <<>>]
    /\ persisted = [r \in Reqs |-> <<>>]
    /\ calls = [r \in Reqs |-> <<>>]

\* no text is being extracted from
NoText == [layout |-> "", value |-> None, lead |-> "", trailing |-> "", text |-> "", out |-> None]

\* no mapping is being serialized
NoData == [in |-> None, out |-> None, kept |-> None, again |-> None]

\* no tree is being listed
NoListing == [kind |-> "", tree |-> None, out |-> None]

\* no scope is open and none was
NoScopes == [frames |-> <<>>,
             exited |-> [span |-> NoSpan, before |-> NoSpan, after |-> NoSpan,
                         raised |-> FALSE, depth |-> 0],
             ops |-> 0]

PureIdle ==
    /\ fin = <<>>
    /\ finlog = <<>>
    /\ red = NoData
    /\ ext = NoText
    /\ lst = NoListing
    /\ scp = NoScopes

(***************************************************************************)
(* app.py: handle_event, up to the call of the provider.                   *)
(***************************************************************************)
ProviderName == "gemini"
ModelName == "gemini-2.5-pro"

\* the spans, data and positions of request r
Spans(r) == trace[r].spans

\* app.py:49-67  handle_event: the trace, the mode, the request, the provider span
handle_event(r) ==
    /\ pc[r] = "idle"
    /\ \E text \in env.prompts :
        LET t   == now[r]
            md  == detect_mode(text)
            tr0 == RequestTrace("req", [provider |-> S(ProviderName),
                                        event_type |-> S("message"),
                                        user |-> S("U1"), channel |-> S("C1"),
                                        channel_type |-> S("im")], t)
            sp1 == span_event(tr0.spans, Root, "request.received", "ok", EmptyDict, t + 1)
            sp2 == span_event(sp1, Root, "mode.detected", "ok",
                              [mode |-> S(md.mode), reason |-> S(md.reason)], t + 2)
            sp3 == span_child(sp2, Root, "provider.respond",
                              [provider |-> S(ProviderName), mode |-> S(md.mode)], t + 3)
        IN  IF text = ""
            THEN \* provider.py:12 prompt: str = Field(min_length=1): build_agent_request
                 \* raises ValidationError before the try of handle_event
                 /\ trace' = [trace EXCEPT ![r] = [tr0 EXCEPT !.spans = sp2]]
                 /\ pc' = [pc EXCEPT ![r] = "crashed"]
                 /\ loc' = [loc EXCEPT ![r].text = text, ![r].mode = md.mode]
                 /\ now' = [now EXCEPT ![r] = t + 3]
            ELSE /\ trace' = [trace EXCEPT ![r] = [tr0 EXCEPT !.spans = sp3]]
                 /\ pc' = [pc EXCEPT ![r] = "respond"]
                 /\ loc' = [loc EXCEPT ![r].text = text, ![r].mode = md.mode,
                                       ![r].provider_span = Len(sp3)]
                 /\ now' = [now EXCEPT ![r] = t + 4]
    /\ UNCHANGED <<history, active, token, said, persisted, calls, env, pureVars>>

(***************************************************************************)
(* agent/gemini.py: respond, up to the loop.                               *)
(***************************************************************************)
\* gemini.py:38-56  respond: the workflow span, then plan mode, the direct
\* answer, or the scope of the access check
respond(r) ==
    /\ pc[r] = "respond"
    /\ LET t      == now[r]
           sp1    == span_child(Spans(r), Root, "llm.workflow",
                                [provider |-> S(ProviderName), model |-> S(ModelName),
                                 mode |-> S(loc[r].mode)], t)
           llm    == Len(sp1)
           access == extract_repo_access(loc[r].text)
           direct == loc[r].mode = "plan" \/ access = NoAccess
       IN  /\ trace' = [trace EXCEPT ![r].spans = sp1]
           /\ now' = [now EXCEPT ![r] = t + 1]
           /\ IF direct
              THEN /\ pc' = [pc EXCEPT ![r] = "generate_text"]
                   /\ loc' = [loc EXCEPT ![r].llm_span = llm, ![r].gen_span = llm,
                                         ![r].gen_for = IF loc[r].mode = "plan" THEN "plan" ELSE "chat",
                                         ![r].gen_calls = @ + 1, ![r].attempt = 0]
                   /\ calls' = [calls EXCEPT ![r] = Append(@, Entry("generate", loc[r].mode, "", 0))]
              ELSE IF ~access.valid
              THEN /\ pc' = [pc EXCEPT ![r] = "except"]
                   /\ loc' = [loc EXCEPT ![r].llm_span = llm,
                                         ![r].exc = [type |-> "ValidationError", msg |-> "RepoAccess"]]
                   /\ calls' = calls
              ELSE /\ pc' = [pc EXCEPT ![r] = "with_trace"]
                   /\ loc' = [loc EXCEPT ![r].llm_span = llm, ![r].access = access,
                                         ![r].scope = "access",
                                         ![r].scope_span = [req |-> r, span |-> llm]]
                   /\ calls' = calls
    /\ UNCHANGED <<history, active, token, said, persisted, env, pureVars>>

(***************************************************************************)
(* agent/gemini.py: _generate_text, one HTTP attempt per step.             *)
(***************************************************************************)
ToolCallTexts == {text \in StepTexts : IsToolCallText(text)}

\* the texts the oracle may write for the generation call request r is in
OracleTexts(r) ==
    LET repertoire == IF loc[r].gen_for # "step" THEN DirectTexts
                      ELSE IF loc[r].iterations < env.varied THEN StepTexts
                      ELSE TailTexts(env.turns, loc[r].iterations)
                           \cup (IF env.faults THEN WrongTexts ELSE {})
    IN  {text \in repertoire : text \in ToolCallTexts => loc[r].step_index < env.tool_answers}

\* the outcomes of urlopen and of reading the response
GenOutcomes(r) ==
    {[kind |-> "ok", code |-> 200, text |-> text] : text \in OracleTexts(r)}
    \cup (IF env.faults
          THEN {[kind |-> "ok", code |-> 200, text |-> ""],
                [kind |-> "http_error", code |-> 500, text |-> "backend error"]}
          ELSE {})
    \cup (IF loc[r].gen_calls <= env.flaky
          THEN {[kind |-> "timeout", code |-> 0, text |-> "timeout"],
                [kind |-> "url_error", code |-> 0, text |-> "Connection refused"]}
          ELSE {})

CodeStr(code) ==
    CASE code = 200 -> "200" [] code = 201 -> "201" [] code = 403 -> "403" [] code = 404 -> "404"
      [] code = 422 -> "422" [] code = 500 -> "500" [] OTHER -> "?"

\* a slip the retry loop could have: an error response retried like a timeout
retryable_all(kind) == kind \in {"timeout", "url_error", "http_error"}

\* gemini.py:137-168  the except clauses that keep last_error and go on
retryable(kind) == kind \in {"timeout", "url_error"}

\* a slip the retry loop could have: one attempt more
attempts_plus_one == max_retries + 2

\* gemini.py:117  range(self.max_retries + 1)
attempts == max_retries + 1

\* gemini.py:115-191  _generate_text: attempt loc.attempt + 1, and after the loop
\* the text of the response
generate_text(r) ==
    /\ pc[r] = "generate_text"
    /\ \E o \in GenOutcomes(r) :
        LET t       == now[r]
            attempt == loc[r].attempt
            g       == loc[r].gen_span
            sp1 == span_event(Spans(r), g, "gemini.http.start", "ok",
                              [attempt |-> N(attempt + 1),
                               endpoint |-> S("/models/" \o ModelName \o ":generateContent")], t)
            log1 == Append(calls[r], Entry("urlopen", o.kind, loc[r].gen_for, attempt + 1))
        IN  /\ now' = [now EXCEPT ![r] = t + 2]
            /\ CASE o.kind = "ok" /\ o.text # "" ->
                    /\ trace' = [trace EXCEPT ![r].spans =
                            span_event(sp1, g, "gemini.http.success", "ok",
                                       [attempt |-> N(attempt + 1), status_code |-> N(o.code)], t + 1)]
                    /\ loc' = [loc EXCEPT ![r].model_text = o.text]
                    /\ pc' = [pc EXCEPT ![r] = IF loc[r].gen_for = "step" THEN "respond_step"
                                               ELSE "respond_direct"]
                    /\ calls' = [calls EXCEPT ![r] = log1]
                 [] o.kind = "ok" /\ o.text = "" ->
                    \* gemini.py:186-190  no text content in the response
                    /\ trace' = [trace EXCEPT ![r].spans =
                            span_event(
                                span_event(sp1, g, "gemini.http.success", "ok",
                                           [attempt |-> N(attempt + 1), status_code |-> N(o.code)], t + 1),
                                g, "gemini.parse.error", "error",
                                [reason |-> S("missing_text_content")], t + 1)]
                    /\ loc' = [loc EXCEPT ![r].exc = RuntimeError("Gemini response missing text content")]
                    /\ pc' = [pc EXCEPT ![r] = "except"]
                    /\ calls' = [calls EXCEPT ![r] = log1]
                 [] o.kind # "ok" /\ ~retryable(o.kind) ->
                    \* gemini.py:137-147  HTTPError: raised at once
                    /\ trace' = [trace EXCEPT ![r].spans =
                            span_event(sp1, g, "gemini.http.error", "error",
                                       [attempt |-> N(attempt + 1), status_code |-> N(o.code),
                                        detail |-> S(o.text)], t + 1)]
                    /\ loc' = [loc EXCEPT ![r].exc =
                            RuntimeError("Gemini API error (" \o CodeStr(o.code) \o "): " \o o.text)]
                    /\ pc' = [pc EXCEPT ![r] = "except"]
                    /\ calls' = [calls EXCEPT ![r] = log1]
                 [] OTHER ->
                    \* gemini.py:148-174  timeout or URLError: last_error, the sleep,
                    \* the next attempt, and after the last one the raise
                    LET last_error == IF o.kind = "timeout"
                                      THEN RuntimeError("Gemini request timed out after 60s (attempt "
                                                        \o IntStr(attempt + 1) \o "/"
                                                        \o IntStr(max_retries + 1) \o ")")
                                      ELSE RuntimeError("Gemini network error: " \o o.text)
                    IN  /\ trace' = [trace EXCEPT ![r].spans =
                                span_event(sp1, g, "gemini.http.error", "error",
                                           [attempt |-> N(attempt + 1), reason |-> S(o.text)], t + 1)]
                        /\ IF attempt + 1 < attempts
                           THEN /\ loc' = [loc EXCEPT ![r].attempt = attempt + 1]
                                /\ pc' = pc
                                /\ calls' = [calls EXCEPT ![r] =
                                        Append(log1, Entry("sleep", "", "", attempt + 1))]
                           ELSE /\ loc' = [loc EXCEPT ![r].exc = last_error]
                                /\ pc' = [pc EXCEPT ![r] = "except"]
                                /\ calls' = [calls EXCEPT ![r] = log1]
    /\ UNCHANGED <<history, active, token, said, persisted, env, pureVars>>

\* gemini.py:41-52  respond: the direct answer, in plan mode or without a repository
respond_direct(r) ==
    /\ pc[r] = "respond_direct"
    /\ LET text == loc[r].model_text
       IN  /\ trace' = [trace EXCEPT ![r].spans =
                   span_finish(@, loc[r].llm_span, "ok",
                               [mode |-> S(loc[r].gen_for), text_length |-> N(Len(text))], now[r])]
           /\ loc' = [loc EXCEPT ![r].response = text]
    /\ now' = [now EXCEPT ![r] = @ + 1]
    /\ pc' = [pc EXCEPT ![r] = "responded"]
    /\ UNCHANGED <<history, active, token, said, persisted, calls, env, pureVars>>

(***************************************************************************)
(* Python values at run time: dict.get, truth, calls and returns.          *)
(***************************************************************************)
B(b) == [t |-> "bool", v |-> b]

\* Python: d.get(k), for a dict value d
Get(d, k) == IF d.t = "dict" /\ k \in DOMAIN d.v THEN d.v[k] ELSE None

\* Python: bool(x)
Truthy(x) ==
    CASE x.t = "none" -> FALSE
      [] x.t = "bool" -> x.v
      [] x.t = "str"  -> x.v # ""
      [] x.t = "int"  -> x.v # 0
      [] x.t = "dict" -> DOMAIN x.v # {}
      [] x.t = "list" -> Len(x.v) > 0
      [] OTHER -> TRUE

(* A callee is entered with the frame of its caller pushed: the position the
   caller goes on at.  It returns a value or raises; either way control goes to
   the frame on top, and the caller looks at ret_ok.  The scope opened by
   with_trace is below every frame. *)
Frame(p, at) == [pc |-> p, at |-> at]

Entered(l, frame) == [l EXCEPT !.stack = <<frame>> \o @, !.at = 0]

ReturnPc(l) == IF Len(l.stack) = 0 THEN "with_trace_exit" ELSE Head(l.stack).pc

Returned(l, val) ==
    [l EXCEPT !.ret_ok = TRUE, !.ret_val = val, !.ret_exc = NoExc,
              !.at = IF Len(l.stack) = 0 THEN 0 ELSE Head(l.stack).at,
              !.stack = IF Len(l.stack) = 0 THEN <<>> ELSE Tail(l.stack)]

Raised(l, exc) ==
    [l EXCEPT !.ret_ok = FALSE, !.ret_val = None, !.ret_exc = exc,
              !.at = IF Len(l.stack) = 0 THEN 0 ELSE Head(l.stack).at,
              !.stack = IF Len(l.stack) = 0 THEN <<>> ELSE Tail(l.stack)]

(***************************************************************************)
(* agent/tools.py: the scoped active span and _request.                    *)
(***************************************************************************)
\* a slip the scope could have: no restore on exit
with_trace_exit_value_kept(previous, current) == current

\* tools.py:77-78  finally: self._active_trace_span = previous
with_trace_exit_value(previous, current) == previous

\* tools.py:71-76  with_trace: the active span is saved and set, the body entered
with_trace(r) ==
    /\ pc[r] = "with_trace"
    /\ loc' = [loc EXCEPT ![r].previous = active, ![r].stack = <<>>, ![r].at = 0]
    /\ active' = loc[r].scope_span
    /\ pc' = [pc EXCEPT ![r] = IF loc[r].scope = "access" THEN "ensure_repo_write_access"
                               ELSE "execute_tool_inner"]
    /\ UNCHANGED <<trace, history, now, token, said, persisted, calls, env, pureVars>>

\* tools.py:77-78 and gemini.py:55-58, 269-270  the scope is left: the active span
\* is restored, and the body's value or exception goes to respond
with_trace_exit(r) ==
    /\ pc[r] = "with_trace_exit"
    /\ active' = with_trace_exit_value(loc[r].previous, active)
    /\ IF loc[r].ret_ok
       THEN /\ pc' = [pc EXCEPT ![r] = IF loc[r].scope = "access" THEN "respond_loop"
                                       ELSE "respond_tool_done"]
            /\ loc' = [loc EXCEPT ![r].call = NoCall, ![r].vars = EmptyDict]
       ELSE /\ pc' = [pc EXCEPT ![r] = "except"]
            /\ loc' = [loc EXCEPT ![r].exc = loc[r].ret_exc,
                                  ![r].call = NoCall, ![r].vars = EmptyDict]
    /\ UNCHANGED <<trace, history, now, token, said, persisted, calls, env, pureVars>>

\* tools.py:80-82  _trace_event: the event goes to the span that is active now
trace_event(tr, name, status, data, t) ==
    IF active = NoSpan THEN tr
    ELSE [tr EXCEPT ![active.req].spans = span_event(@, active.span, name, status, data, t)]

Unreserved == "ABCDEFGHIJKLMNOPQRSTUVWXYZabcdefghijklmnopqrstuvwxyz0123456789_.-~"

\* urllib.parse.quote(s, safe=safe) on the characters the model's names hold
RECURSIVE quote(_, _)
quote(s, safe) ==
    IF s = "" THEN ""
    ELSE IF Len(s) = 1
    THEN IF Contains(Unreserved, s) \/ Contains(safe, s) THEN s
         ELSE CASE s = "/" -> "%2F" [] s = " " -> "%20" [] s = "#" -> "%23"
                [] s = "?" -> "%3F" [] OTHER -> "%25"
    ELSE quote(SubSeq(s, 1, Len(s) \div 2), safe) \o quote(SubSeq(s, Len(s) \div 2 + 1, Len(s)), safe)

RepoPath(access) == "/repos/" \o access.owner \o "/" \o access.repo

Request(method, kind, path, payload) ==
    [method |-> method, kind |-> kind, path |-> path, payload |-> payload]

HttpError(code, detail) == [ok |-> FALSE, kind |-> "http", code |-> code, text |-> detail, body |-> None]
UrlError(reason) == [ok |-> FALSE, kind |-> "url", code |-> 0, text |-> reason, body |-> None]
Ok(code, body) == [ok |-> TRUE, kind |-> "", code |-> code, text |-> "", body |-> body]

TreeSmall ==
    D([tree |-> L(<<D([path |-> S("a.py"), type |-> S("blob")]),
                    D([path |-> S("src"), type |-> S("tree")]),
                    D([path |-> S("src/b.py"), type |-> S("blob")])>>)])

\* the answers of the repository host to the request the call describes, as a
\* sequence; an iteration that may answer anything gets all of them
HostAnswers(r) ==
    LET c == loc[r].call
        varied == loc[r].iterations < env.varied
        good ==
            CASE c.kind = "repo" ->
                    <<Ok(200, D([permissions |-> D([push |-> B(TRUE)]), default_branch |-> S("dev")]))>>
                    \o (IF varied
                        THEN <<Ok(200, D([permissions |-> D([push |-> B(FALSE)]),
                                          default_branch |-> S("main")])),
                               Ok(200, D([id |-> N(7)]))>>
                        ELSE <<>>)
              [] c.kind = "ref" -> <<Ok(200, D([object |-> D([sha |-> S("c0ffee")])]))>>
              [] c.kind = "refs" -> <<Ok(201, D([ref |-> S("refs/heads/fix-1")]))>>
              [] c.kind = "tree" -> <<Ok(200, TreeSmall)>>
              [] c.kind = "contents" /\ c.method = "GET" ->
                    <<Ok(200, D([sha |-> S("f00d"), content |-> S("eCA9IDE=\n")]))>>
                    \o (IF varied THEN <<Ok(200, D([content |-> S("")]))>> ELSE <<>>)
              [] c.kind = "contents" /\ c.method = "PUT" ->
                    <<Ok(200, D([commit |-> D([sha |-> S("beef")])]))>>
              [] c.kind = "pulls" ->
                    <<Ok(201, D([html_url |-> S("https://github.com/acme/widgets/pull/4")]))>>
              [] OTHER -> <<>>
        bad ==
            (IF env.faults THEN <<HttpError(500, "Server Error")>> ELSE <<>>)
            \o (IF varied
                THEN <<HttpError(404, "Not Found"), HttpError(403, "Forbidden"),
                       HttpError(422, "Reference already exists"), UrlError("Connection refused")>>
                ELSE <<>>)
    IN  good \o bad

\* tools.py:118-151  the RuntimeError _request raises for a failed call
request_error(c, ans) ==
    IF ans.kind = "url"
    THEN RuntimeError("GitHub network error on " \o c.method \o " " \o c.path \o ": " \o ans.text)
    ELSE LET head == "GitHub API error (" \o CodeStr(ans.code) \o ") on " \o c.method
                     \o " " \o c.path \o ": " \o ans.text
         IN  IF ans.code = 404 /\ StartsWith(c.path, "/repos/")
             THEN RuntimeError(head \o ". For private repos, verify GITHUB_TOKEN can access this repo")
             ELSE IF ans.code = 403 /\ StartsWith(c.path, "/repos/")
                     /\ c.method \in {"POST", "PUT", "PATCH", "DELETE"}
             THEN RuntimeError(head \o ". This token can likely read the repo but cannot write.")
             ELSE RuntimeError(head)

\* tools.py:84-107  _request, up to urlopen: without a token the auth error is
\* traced and raised; with one the start is traced and the call is on its way
request_start(r) ==
    /\ pc[r] = "request"
    /\ LET c == loc[r].call
       IN  IF ~token
           THEN /\ trace' = trace_event(trace, "github.auth.error", "error",
                                        [reason |-> S("missing_token")], now[r])
                /\ calls' = [calls EXCEPT ![r] =
                        Append(@, Entry("trace_event", "github.auth.error", "", active.req))]
                /\ pc' = [pc EXCEPT ![r] = ReturnPc(loc[r])]
                /\ loc' = [loc EXCEPT ![r] =
                        Raised(@, RuntimeError("Missing GITHUB_TOKEN for GitHub tools"))]
           ELSE /\ trace' = trace_event(trace, "github.http.start", "ok",
                                        [method |-> S(c.method), path |-> S(c.path)], now[r])
                /\ calls' = [calls EXCEPT ![r] =
                        Append(Append(@, Entry("trace_event", "github.http.start", "", active.req)),
                               Entry("github", c.method, c.path, loc[r].iterations))]
                /\ pc' = [pc EXCEPT ![r] = "request_wait"]
                /\ loc' = loc
    /\ now' = [now EXCEPT ![r] = @ + 1]
    /\ UNCHANGED <<history, active, token, said, persisted, env, pureVars>>

\* tools.py:108-151  _request, from the answer on: success or error is traced,
\* the body returned or the RuntimeError raised
request_finish(r) ==
    /\ pc[r] = "request_wait"
    /\ \E a \in 1..Len(HostAnswers(r)) :
        LET c   == loc[r].call
            ans == HostAnswers(r)[a]
        IN  IF ans.ok
            THEN /\ trace' = trace_event(trace, "github.http.success", "ok",
                                         [method |-> S(c.method), path |-> S(c.path),
                                          status_code |-> N(ans.code)], now[r])
                 /\ calls' = [calls EXCEPT ![r] =
                         Append(@, Entry("trace_event", "github.http.success", "", active.req))]
                 /\ loc' = [loc EXCEPT ![r] = Returned(@, ans.body)]
            ELSE /\ trace' = trace_event(trace, "github.http.error", "error",
                                         IF ans.kind = "http"
                                         THEN [method |-> S(c.method), path |-> S(c.path),
                                               status_code |-> N(ans.code), detail |-> S(ans.text)]
                                         ELSE [method |-> S(c.method), path |-> S(c.path),
                                               reason |-> S(ans.text)], now[r])
                 /\ calls' = [calls EXCEPT ![r] =
                         Append(@, Entry("trace_event", "github.http.error", "", active.req))]
                 /\ loc' = [loc EXCEPT ![r] = Raised(@, request_error(c, ans))]
    /\ pc' = [pc EXCEPT ![r] = ReturnPc(loc[r])]
    /\ now' = [now EXCEPT ![r] = @ + 1]
    /\ UNCHANGED <<history, active, token, said, persisted, env, pureVars>>

\* a slip the access check could have: a token without push rights let through
push_denied_never(repo) == FALSE

\* tools.py:155-156  isinstance(permissions, dict) and not permissions.get("push", False)
push_denied(repo) ==
    LET permissions == Get(repo, "permissions")
    IN  permissions.t = "dict" /\ ~Truthy(Get(permissions, "push"))

\* what the host said of the repository: the call failed, the document denies
\* push, or it does not
RepoAnswer(l) ==
    IF ~l.ret_ok THEN "error"
    ELSE IF "permissions" \in DOMAIN l.ret_val.v
            /\ l.ret_val.v["permissions"].v["push"] = B(FALSE) THEN "no_push"
    ELSE "open"

\* tools.py:153-160  ensure_repo_write_access
ensure_repo_write_access(r) ==
    /\ pc[r] = "ensure_repo_write_access"
    /\ IF loc[r].at = 0
       THEN /\ loc' = [loc EXCEPT ![r] =
                    [Entered(@, Frame("ensure_repo_write_access", 1))
                        EXCEPT !.call = Request("GET", "repo", RepoPath(loc[r].access), EmptyDict)]]
            /\ pc' = [pc EXCEPT ![r] = "request"]
            /\ calls' = [calls EXCEPT ![r] = Append(@, Entry("ensure_repo_write_access", "", "", 0))]
       ELSE /\ loc' = [loc EXCEPT ![r] =
                    IF ~loc[r].ret_ok THEN Raised(@, loc[r].ret_exc)
                    ELSE IF push_denied(loc[r].ret_val)
                    THEN Raised(@, RuntimeError("GITHUB_TOKEN has no push access to this repo."))
                    ELSE Returned(@, None)]
            /\ pc' = [pc EXCEPT ![r] = ReturnPc(loc[r])]
            /\ calls' = [calls EXCEPT ![r] =
                    Append(@, Entry("access_check", RepoAnswer(loc[r]),
                                    IF loc[r].ret_ok /\ ~push_denied(loc[r].ret_val)
                                    THEN "returned" ELSE "raised", 0))]
    /\ UNCHANGED <<trace, history, now, active, token, said, persisted, env, pureVars>>

(***************************************************************************)
(* agent/gemini.py: the loop of respond.                                   *)
(***************************************************************************)
StepLimitMessage == "I couldn't complete the workflow within the step limit."

\* a slip the loop could have: one iteration more
step_limit_plus_one == StepLimit + 1

\* gemini.py:59  range(12): the number of iterations the loop may start
step_limit == StepLimit

\* a slip the end of the loop could have: the step limit raised as an error
after_loop_raises(l) == [pc |-> "except", loc |-> [l EXCEPT !.exc = RuntimeError(StepLimitMessage)]]

\* gemini.py:95-99  return AgentResponse(text="I couldn't complete ...")
after_loop(l) == [pc |-> "responded", loc |-> [l EXCEPT !.response = StepLimitMessage]]

\* gemini.py:59-62, 94-99  the head of the loop: the next iteration opens its
\* step span and calls the oracle; after the last one the step-limit answer
respond_loop(r) ==
    /\ pc[r] = "respond_loop"
    /\ IF loc[r].iterations < step_limit
       THEN LET sp1 == span_child(Spans(r), loc[r].llm_span, "llm.step",
                                  [index |-> N(loc[r].iterations + 1)], now[r])
            IN  /\ trace' = [trace EXCEPT ![r].spans = sp1]
                /\ loc' = [loc EXCEPT ![r].step_index = loc[r].iterations,
                                      ![r].iterations = @ + 1,
                                      ![r].step_span = Len(sp1), ![r].tool_span = 0,
                                      ![r].gen_span = Len(sp1), ![r].gen_for = "step",
                                      ![r].gen_calls = @ + 1, ![r].attempt = 0]
                /\ pc' = [pc EXCEPT ![r] = "generate_text"]
                /\ calls' = [calls EXCEPT ![r] =
                        Append(Append(@, Entry("step", "", "", loc[r].iterations + 1)),
                               Entry("generate", "step", "", Len(history[r])))]
       ELSE /\ trace' = [trace EXCEPT ![r].spans =
                    span_finish(@, loc[r].llm_span, "error",
                                [reason |-> S("step_limit_exceeded")], now[r])]
            /\ loc' = [loc EXCEPT ![r] = after_loop(@).loc]
            /\ pc' = [pc EXCEPT ![r] = after_loop(loc[r]).pc]
            /\ calls' = calls
    /\ now' = [now EXCEPT ![r] = @ + 1]
    /\ UNCHANGED <<history, active, token, said, persisted, env, pureVars>>

ParseFailed(exc, events) == [ok |-> FALSE, action |-> None, exc |-> exc, events |-> events]

\* a slip the classification could have: any other type taken as a final answer
parse_extracted_lenient(ex, model_text) ==
    IF ~ex.ok
    THEN ParseFailed(RuntimeError("Gemini response is not JSON: " \o model_text), <<>>)
    ELSE IF IsStr(Get(ex.payload, "type"), "tool_call") /\ "tool" \in DOMAIN ex.payload.v
    THEN [ok |-> TRUE, exc |-> NoExc, events |-> <<>>,
          action |-> D(Update([arguments |-> D(EmptyDict)], ex.payload.v))]
    ELSE [ok |-> TRUE, exc |-> NoExc, events |-> <<>>,
          action |-> D(Update([message |-> S("")], Update(ex.payload.v, [type |-> S("final")])))]

\* gemini.py:239-260  _parse_action: the action, or the error raised, and the
\* events put on the step span
parse_extracted(ex, model_text) ==
    IF ~ex.ok
    THEN ParseFailed(RuntimeError("Gemini response is not JSON: " \o model_text),
                     <<[name |-> "gemini.action.parse.error", status |-> "error",
                        data |-> [error |-> S(ex.error), raw |-> S(model_text)]]>>)
    ELSE LET events == IF ex.trailing # ""
                       THEN <<[name |-> "gemini.action.trailing_text", status |-> "warn",
                               data |-> [trailing |-> S(ex.trailing)]]>>
                       ELSE <<>>
             payload == ex.payload
             action_type == Get(payload, "type")
         IN  IF IsStr(action_type, "tool_call")
             THEN IF "tool" \notin DOMAIN payload.v
                  THEN ParseFailed(RuntimeError("Invalid tool_call payload"), events)
                  ELSE [ok |-> TRUE, exc |-> NoExc, events |-> events,
                        \* payload.setdefault("arguments", {})
                        action |-> D(Update([arguments |-> D(EmptyDict)], payload.v))]
             ELSE IF IsStr(action_type, "final")
             THEN IF ~Truthy(Get(payload, "message"))
                  THEN ParseFailed(RuntimeError("Invalid final payload"), events)
                  ELSE [ok |-> TRUE, exc |-> NoExc, events |-> events, action |-> payload]
             ELSE ParseFailed(RuntimeError("Unsupported action type from Gemini"), events)

\* gemini.py:239-240  payload, trailing = extract_first_json_object(model_text)
parse_action(model_text) == parse_extracted(extract_first_json_object(model_text), model_text)

\* the events of a parse, appended to span i in order
RECURSIVE span_events(_, _, _, _)
span_events(sp, i, events, t) ==
    IF events = <<>> THEN sp
    ELSE span_events(span_event(sp, i, Head(events).name, Head(events).status,
                                Head(events).data, t), i, Tail(events), t)

\* gemini.py:63-82  the body of an iteration after the oracle's answer: the
\* action is decoded; a final action ends the workflow, a tool call opens its
\* span and enters the scope of _execute_tool
respond_parsed(r, pa) ==
    LET t   == now[r]
        sp1 == span_events(Spans(r), loc[r].step_span, pa.events, t)
    IN  IF ~pa.ok
        THEN /\ trace' = [trace EXCEPT ![r].spans = sp1]
             /\ loc' = [loc EXCEPT ![r].exc = pa.exc]
             /\ pc' = [pc EXCEPT ![r] = "except"]
             /\ calls' = calls
        ELSE IF IsStr(pa.action.v["type"], "final")
        THEN /\ trace' = [trace EXCEPT ![r].spans =
                     span_finish(span_finish(sp1, loc[r].step_span, "ok",
                                             [action_type |-> S("final")], t + 1),
                                 loc[r].llm_span, "ok", [mode |-> S("tool_workflow")], t + 2)]
             /\ loc' = [loc EXCEPT ![r].action = pa.action,
                                   ![r].response = pa.action.v["message"].v]
             /\ pc' = [pc EXCEPT ![r] = "responded"]
             /\ calls' = calls
        ELSE /\ trace' = [trace EXCEPT ![r].spans =
                     span_child(sp1, loc[r].step_span, "llm.tool_call",
                                [tool |-> pa.action.v["tool"],
                                 arguments |-> pa.action.v["arguments"]], t + 1)]
             /\ loc' = [loc EXCEPT ![r].action = pa.action, ![r].tool_span = Len(Spans(r)) + 1,
                                   ![r].scope = "tool",
                                   ![r].scope_span = [req |-> r, span |-> Len(Spans(r)) + 1]]
             /\ pc' = [pc EXCEPT ![r] = "with_trace"]
             /\ calls' = [calls EXCEPT ![r] =
                     Append(@, Entry("execute_tool",
                                     IF pa.action.v["tool"].t = "str" THEN pa.action.v["tool"].v
                                     ELSE "?",
                                     loc[r].model_text, loc[r].iterations))]

respond_step(r) ==
    /\ pc[r] = "respond_step"
    /\ respond_parsed(r, parse_action(loc[r].model_text))
    /\ now' = [now EXCEPT ![r] = @ + 3]
    /\ UNCHANGED <<history, active, token, said, persisted, env, pureVars>>

\* a slip the loop could have: the entry put at the front of the history
history_append_front(h, entry) == <<entry>> \o h

\* a slip the loop could have: the entry recorded when the tool is dispatched
\* and again when it returned
history_append_twice(h, entry) == Append(Append(h, entry), entry)

\* gemini.py:85-90  history.append({...})
history_append(h, entry) == Append(h, entry)

\* gemini.py:83-92  the iteration after the tool returned: the tool span is
\* finished, the history extended, the step span finished
respond_tool_done(r) ==
    /\ pc[r] = "respond_tool_done"
    /\ trace' = [trace EXCEPT ![r].spans =
            span_finish(span_finish(@, loc[r].tool_span, "ok", EmptyDict, now[r]),
                        loc[r].step_span, "ok", [action_type |-> S("tool_call")], now[r] + 1)]
    /\ history' = [history EXCEPT ![r] =
            history_append(@, [assistant |-> loc[r].model_text, tool_result |-> loc[r].ret_val])]
    /\ now' = [now EXCEPT ![r] = @ + 2]
    /\ pc' = [pc EXCEPT ![r] = "respond_loop"]
    /\ UNCHANGED <<loc, active, token, said, persisted, calls, env, pureVars>>

(***************************************************************************)
(* agent/tools.py: the input models and the tool functions.                *)
(***************************************************************************)
ValidationError(model) == [type |-> "ValidationError", msg |-> model]
KeyError(key) == [type |-> "KeyError", msg |-> key]

NonEmptyStr(d, k) == k \in DOMAIN d /\ d[k].t = "str" /\ d[k].v # ""

\* a slip the input model could have: content not required
WriteFileInput_content_optional(arguments) ==
    [ok |-> /\ arguments.t = "dict"
            /\ DOMAIN arguments.v \subseteq {"path", "content", "commit_message", "branch"}
            /\ NonEmptyStr(arguments.v, "path")
            /\ NonEmptyStr(arguments.v, "commit_message"),
     payload |-> IF arguments.t = "dict"
                 THEN Update([branch |-> None, content |-> S("")], arguments.v) ELSE EmptyDict]

\* tools.py:50-56  WriteFileInput.model_validate(arguments)
WriteFileInput(arguments) ==
    [ok |-> /\ arguments.t = "dict"
            /\ DOMAIN arguments.v \subseteq {"path", "content", "commit_message", "branch"}
            /\ NonEmptyStr(arguments.v, "path")
            /\ "content" \in DOMAIN arguments.v /\ arguments.v["content"].t = "str"
            /\ NonEmptyStr(arguments.v, "commit_message")
            /\ ("branch" \in DOMAIN arguments.v => arguments.v["branch"].t \in {"str", "none"}),
     payload |-> IF arguments.t = "dict" THEN Update([branch |-> None], arguments.v) ELSE EmptyDict]

\* tools.py:41-47  PullRequestInput.model_validate(arguments)
PullRequestInput(arguments) ==
    [ok |-> /\ arguments.t = "dict"
            /\ DOMAIN arguments.v \subseteq {"title", "body", "head_branch", "base_branch"}
            /\ NonEmptyStr(arguments.v, "title")
            /\ NonEmptyStr(arguments.v, "head_branch")
            /\ ("body" \in DOMAIN arguments.v => arguments.v["body"].t = "str")
            /\ ("base_branch" \in DOMAIN arguments.v => NonEmptyStr(arguments.v, "base_branch")),
     payload |-> IF arguments.t = "dict"
                 THEN Update([body |-> S(""), base_branch |-> S("main")], arguments.v)
                 ELSE EmptyDict]

\* base64 on the contents the model's files hold
Base64 == <<[plain |-> "x = 1", enc |-> "eCA9IDE="], [plain |-> "x = {}", enc |-> "eCA9IHt9"]>>
b64encode(s) ==
    IF \E i \in 1..Len(Base64) : Base64[i].plain = s
    THEN Base64[CHOOSE i \in 1..Len(Base64) : Base64[i].plain = s].enc ELSE "Pw=="
b64decode(s) ==
    IF \E i \in 1..Len(Base64) : Base64[i].enc = s
    THEN Base64[CHOOSE i \in 1..Len(Base64) : Base64[i].enc = s].plain ELSE "?"

\* Python: a or b
Or(a, b) == IF Truthy(a) THEN a ELSE b

\* the call of _request from the function at pc p, which goes on at position at
CallRequest(l, p, at, c) == [Entered(l, Frame(p, at)) EXCEPT !.call = c]

\* a slip the fallback could have: any error of the lookup taken as not-found
Is404_any(exc) == TRUE

\* tools.py:208, 226, 273  "GitHub API error (404)" in str(exc)
Is404(exc) == Contains(exc.msg, "GitHub API error (404)")

\* tools.py:162-164  get_default_branch
get_default_branch(r) ==
    /\ pc[r] = "get_default_branch"
    /\ IF loc[r].at = 0
       THEN /\ loc' = [loc EXCEPT ![r] =
                    CallRequest(@, "get_default_branch", 1,
                                Request("GET", "repo", RepoPath(loc[r].access), EmptyDict))]
            /\ pc' = [pc EXCEPT ![r] = "request"]
       ELSE /\ loc' = [loc EXCEPT ![r] =
                    IF ~loc[r].ret_ok THEN Raised(@, loc[r].ret_exc)
                    ELSE Returned(@, Or(Get(loc[r].ret_val, "default_branch"),
                                        S(loc[r].access.branch)))]
            /\ pc' = [pc EXCEPT ![r] = ReturnPc(loc[r])]
    /\ UNCHANGED <<trace, history, now, active, token, said, persisted, calls, env, pureVars>>

\* a slip create_branch could have: every failure of the POST swallowed
already_exists_any(exc) == TRUE

\* tools.py:186  the one failure of the POST that create_branch goes on after
already_exists(exc) ==
    Contains(exc.msg, "GitHub API error (422)") /\ Contains(exc.msg, "Reference already exists")

\* tools.py:166-188  create_branch
create_branch(r) ==
    /\ pc[r] = "create_branch"
    /\ LET l == loc[r]
           path == RepoPath(l.access)
           GetRef(source) ==
               CallRequest([l EXCEPT !.vars = Update(@, [source |-> source])], "create_branch", 2,
                           Request("GET", "ref", path \o "/git/ref/heads/" \o quote(source.v, ""),
                                   EmptyDict))
       IN  CASE l.at = 0 /\ Truthy(l.vars["from_branch"]) ->
                    /\ loc' = [loc EXCEPT ![r] = GetRef(l.vars["from_branch"])]
                    /\ pc' = [pc EXCEPT ![r] = "request"]
             [] l.at = 0 /\ ~Truthy(l.vars["from_branch"]) ->
                    /\ loc' = [loc EXCEPT ![r] = Entered(@, Frame("create_branch", 1))]
                    /\ pc' = [pc EXCEPT ![r] = "get_default_branch"]
             [] l.at = 1 ->
                    IF ~l.ret_ok
                    THEN /\ loc' = [loc EXCEPT ![r] = Raised(@, l.ret_exc)]
                         /\ pc' = [pc EXCEPT ![r] = ReturnPc(l)]
                    ELSE /\ loc' = [loc EXCEPT ![r] = GetRef(l.ret_val)]
                         /\ pc' = [pc EXCEPT ![r] = "request"]
             [] l.at = 2 ->
                    IF ~l.ret_ok
                    THEN /\ loc' = [loc EXCEPT ![r] = Raised(@, l.ret_exc)]
                         /\ pc' = [pc EXCEPT ![r] = ReturnPc(l)]
                    ELSE IF "object" \notin DOMAIN l.ret_val.v
                            \/ "sha" \notin DOMAIN l.ret_val.v["object"].v
                    THEN /\ loc' = [loc EXCEPT ![r] =
                                Raised(@, KeyError(IF "object" \notin DOMAIN l.ret_val.v
                                                   THEN "object" ELSE "sha"))]
                         /\ pc' = [pc EXCEPT ![r] = ReturnPc(l)]
                    ELSE /\ loc' = [loc EXCEPT ![r] =
                                CallRequest(@, "create_branch", 3,
                                    Request("POST", "refs", path \o "/git/refs",
                                            [ref |-> S("refs/heads/" \o l.vars["new_branch"].v),
                                             sha |-> l.ret_val.v["object"].v["sha"]]))]
                         /\ pc' = [pc EXCEPT ![r] = "request"]
             [] OTHER ->
                    /\ loc' = [loc EXCEPT ![r] =
                            IF ~l.ret_ok /\ ~already_exists(l.ret_exc) THEN Raised(@, l.ret_exc)
                            ELSE Returned(@, l.vars["new_branch"])]
                    /\ pc' = [pc EXCEPT ![r] = ReturnPc(l)]
    /\ UNCHANGED <<trace, history, now, active, token, said, persisted, calls, env, pureVars>>

\* tools.py:193-197  the paths of the blobs of a tree, in the tree's order
RECURSIVE blob_paths(_)
blob_paths(entries) ==
    IF entries = <<>> THEN <<>>
    ELSE IF Len(entries) = 1
    THEN LET entry == entries[1]
         IN  IF IsStr(Get(entry, "type"), "blob") /\ Truthy(Get(entry, "path"))
             THEN <<entry.v["path"]>> ELSE <<>>
    ELSE blob_paths(SubSeq(entries, 1, Len(entries) \div 2))
            \o blob_paths(SubSeq(entries, Len(entries) \div 2 + 1, Len(entries)))

tree_files(tree) ==
    L(blob_paths(IF "tree" \in DOMAIN tree.v THEN tree.v["tree"].v ELSE <<>>))

TreePath(access, ref) ==
    RepoPath(access) \o "/git/trees/" \o quote(ref, "") \o "?recursive=1"

\* tools.py:190-197, 268-283  list_files with _get_tree_with_fallback
list_files(r) ==
    /\ pc[r] = "list_files"
    /\ LET l == loc[r]
       IN  CASE l.at = 0 ->
                    LET ref == Or(l.vars["branch"], S(l.access.branch))
                    IN  /\ loc' = [loc EXCEPT ![r] =
                                CallRequest([l EXCEPT !.vars = Update(@, [ref |-> ref])], "list_files", 1,
                                            Request("GET", "tree", TreePath(l.access, ref.v), EmptyDict))]
                        /\ pc' = [pc EXCEPT ![r] = "request"]
             [] l.at = 1 /\ l.ret_ok ->
                    /\ loc' = [loc EXCEPT ![r] = Returned(@, tree_files(l.ret_val))]
                    /\ pc' = [pc EXCEPT ![r] = ReturnPc(l)]
             [] l.at = 1 /\ ~l.ret_ok /\ ~Is404(l.ret_exc) ->
                    /\ loc' = [loc EXCEPT ![r] = Raised(@, l.ret_exc)]
                    /\ pc' = [pc EXCEPT ![r] = ReturnPc(l)]
             [] l.at = 1 /\ ~l.ret_ok /\ Is404(l.ret_exc) ->
                    /\ loc' = [loc EXCEPT ![r] =
                            Entered([l EXCEPT !.vars = Update(@, [exc |-> S(l.ret_exc.msg)])],
                                    Frame("list_files", 2))]
                    /\ pc' = [pc EXCEPT ![r] = "get_default_branch"]
             [] l.at = 2 /\ ~l.ret_ok ->
                    /\ loc' = [loc EXCEPT ![r] = Raised(@, l.ret_exc)]
                    /\ pc' = [pc EXCEPT ![r] = ReturnPc(l)]
             [] l.at = 2 /\ l.ret_ok /\ l.ret_val = l.vars["ref"] ->
                    \* tools.py:277-278  the bare raise: the 404 of the first call
                    /\ loc' = [loc EXCEPT ![r] = Raised(@, RuntimeError(l.vars["exc"].v))]
                    /\ pc' = [pc EXCEPT ![r] = ReturnPc(l)]
             [] l.at = 2 /\ l.ret_ok /\ l.ret_val # l.vars["ref"] ->
                    /\ loc' = [loc EXCEPT ![r] =
                            CallRequest(@, "list_files", 3,
                                        Request("GET", "tree", TreePath(l.access, l.ret_val.v), EmptyDict))]
                    /\ pc' = [pc EXCEPT ![r] = "request"]
             [] OTHER ->
                    /\ loc' = [loc EXCEPT ![r] =
                            IF ~l.ret_ok THEN Raised(@, l.ret_exc)
                            ELSE Returned(@, tree_files(l.ret_val))]
                    /\ pc' = [pc EXCEPT ![r] = ReturnPc(l)]
    /\ UNCHANGED <<trace, history, now, active, token, said, persisted, calls, env, pureVars>>

ContentsPath(access, path, ref) ==
    RepoPath(access) \o "/contents/" \o quote(path, "/") \o "?ref=" \o quote(ref, "")

\* tools.py:215-218  the text of a contents document
file_text(data) ==
    LET content == ReplaceChar(IF "content" \in DOMAIN data.v THEN data.v["content"].v ELSE "",
                               "\n", "")
    IN  IF content = "" THEN S("") ELSE S(b64decode(content))

\* tools.py:199-218  read_file
read_file(r) ==
    /\ pc[r] = "read_file"
    /\ LET l == loc[r]
       IN  CASE l.at = 0 ->
                    LET ref == Or(l.vars["branch"], S(l.access.branch))
                    IN  /\ loc' = [loc EXCEPT ![r] =
                                CallRequest([l EXCEPT !.vars = Update(@, [ref |-> ref])], "read_file", 1,
                                    Request("GET", "contents",
                                            ContentsPath(l.access, l.vars["path"].v, ref.v), EmptyDict))]
                        /\ pc' = [pc EXCEPT ![r] = "request"]
             [] l.at = 1 /\ ~l.ret_ok /\ Is404(l.ret_exc) ->
                    /\ loc' = [loc EXCEPT ![r] = Entered(@, Frame("read_file", 2))]
                    /\ pc' = [pc EXCEPT ![r] = "get_default_branch"]
             [] l.at = 2 /\ l.ret_ok ->
                    /\ loc' = [loc EXCEPT ![r] =
                            CallRequest(@, "read_file", 3,
                                Request("GET", "contents",
                                        ContentsPath(l.access, l.vars["path"].v, l.ret_val.v), EmptyDict))]
                    /\ pc' = [pc EXCEPT ![r] = "request"]
             [] OTHER ->
                    /\ loc' = [loc EXCEPT ![r] =
                            IF ~l.ret_ok THEN Raised(@, l.ret_exc)
                            ELSE Returned(@, file_text(l.ret_val))]
                    /\ pc' = [pc EXCEPT ![r] = ReturnPc(l)]
    /\ UNCHANGED <<trace, history, now, active, token, said, persisted, calls, env, pureVars>>

\* a slip the upsert could have: the sha never sent
upsert_body_without_sha(body, existing) == body

\* tools.py:236-237  if existing.get("sha"): body["sha"] = existing["sha"]
upsert_body(body, existing) ==
    IF Truthy(Get(existing, "sha")) THEN Update(body, [sha |-> existing.v["sha"]]) ELSE body

\* tools.py:220-247  write_file
write_file(r) ==
    /\ pc[r] = "write_file"
    /\ LET l == loc[r]
           payload == l.vars["payload"].v
           branch == Or(payload["branch"], S(l.access.branch))
           body == [message |-> payload["commit_message"],
                    content |-> S(b64encode(payload["content"].v)),
                    branch |-> branch]
           Put(b) == CallRequest(l, "write_file", 2,
                        Request("PUT", "contents",
                                RepoPath(l.access) \o "/contents/" \o quote(payload["path"].v, "/"), b))
       IN  CASE l.at = 0 ->
                    /\ loc' = [loc EXCEPT ![r] =
                            CallRequest(@, "write_file", 1,
                                Request("GET", "contents",
                                        ContentsPath(l.access, payload["path"].v, branch.v), EmptyDict))]
                    /\ pc' = [pc EXCEPT ![r] = "request"]
             [] l.at = 1 /\ l.ret_ok ->
                    /\ loc' = [loc EXCEPT ![r] = Put(upsert_body(body, l.ret_val))]
                    /\ pc' = [pc EXCEPT ![r] = "request"]
             [] l.at = 1 /\ ~l.ret_ok /\ Is404(l.ret_exc) ->
                    /\ loc' = [loc EXCEPT ![r] = Put(body)]
                    /\ pc' = [pc EXCEPT ![r] = "request"]
             [] l.at = 1 /\ ~l.ret_ok /\ ~Is404(l.ret_exc) ->
                    /\ loc' = [loc EXCEPT ![r] = Raised(@, l.ret_exc)]
                    /\ pc' = [pc EXCEPT ![r] = ReturnPc(l)]
             [] OTHER ->
                    /\ loc' = [loc EXCEPT ![r] =
                            IF ~l.ret_ok THEN Raised(@, l.ret_exc)
                            ELSE Returned(@, LET sha == Get(Get(l.ret_val, "commit"), "sha")
                                             IN  IF "commit" \in DOMAIN l.ret_val.v
                                                    /\ "sha" \in DOMAIN l.ret_val.v["commit"].v
                                                 THEN sha ELSE S(""))]
                    /\ pc' = [pc EXCEPT ![r] = ReturnPc(l)]
    /\ UNCHANGED <<trace, history, now, active, token, said, persisted, calls, env, pureVars>>

\* tools.py:255-266  create_pull_request
create_pull_request(r) ==
    /\ pc[r] = "create_pull_request"
    /\ LET l == loc[r]
           payload == l.vars["payload"].v
       IN  IF l.at = 0
           THEN /\ loc' = [loc EXCEPT ![r] =
                        CallRequest(@, "create_pull_request", 1,
                            Request("POST", "pulls", RepoPath(l.access) \o "/pulls",
                                    [title |-> payload["title"], body |-> payload["body"],
                                     head |-> payload["head_branch"],
                                     base |-> payload["base_branch"]]))]
                /\ pc' = [pc EXCEPT ![r] = "request"]
           ELSE /\ loc' = [loc EXCEPT ![r] =
                        IF ~l.ret_ok THEN Raised(@, l.ret_exc)
                        ELSE Returned(@, IF "html_url" \in DOMAIN l.ret_val.v
                                         THEN l.ret_val.v["html_url"] ELSE S(""))]
                /\ pc' = [pc EXCEPT ![r] = ReturnPc(l)]
    /\ UNCHANGED <<trace, history, now, active, token, said, persisted, calls, env, pureVars>>

\* Python: files[:n]
Take(q, n) == SubSeq(q, 1, Min(n, Len(q)))

\* a slip the cap could have: the count taken after the cut
list_files_result_counted_late(files) ==
    [files |-> L(Take(files.v, FilesCap)), total_files |-> N(Len(Take(files.v, FilesCap)))]

\* gemini.py:290  {"files": files[:500], "total_files": len(files)}
list_files_result(files) ==
    [files |-> L(Take(files.v, FilesCap)), total_files |-> N(Len(files.v))]

ToolNames ==
    {"get_default_branch", "create_branch", "list_files", "read_file", "write_file",
     "create_pull_request"}

\* a slip the dispatcher could have: an unknown name answered with an empty result
unknown_tool_tolerated(l, tool_name) == Returned(l, D(EmptyDict))

\* gemini.py:310  raise RuntimeError(f"Unknown tool requested by Gemini: {tool_name}")
unknown_tool(l, tool_name) ==
    Raised(l, RuntimeError("Unknown tool requested by Gemini: "
                           \o (IF tool_name.t = "str" THEN tool_name.v ELSE "?")))

\* gemini.py:272-310  _execute_tool_inner: the dispatch on the tool's name, and
\* after the tool function returned the result dict
execute_tool_inner(r) ==
    /\ pc[r] = "execute_tool_inner"
    /\ LET l == loc[r]
           tool_name == l.action.v["tool"]
           arguments == l.action.v["arguments"]
           Call(locals) == Entered([l EXCEPT !.vars = locals], Frame("execute_tool_inner", 1))
           Go(next, nextpc) ==
               /\ loc' = [loc EXCEPT ![r] = next]
               /\ pc' = [pc EXCEPT ![r] = nextpc]
           Fail(exc) == Go(Raised(l, exc), ReturnPc(l))
           Result(d) == Go(Returned(l, D(d)), ReturnPc(l))
       IN  CASE l.at = 1 /\ ~l.ret_ok -> Fail(l.ret_exc)
             [] tool_name.t # "str" \/ tool_name.v \notin ToolNames ->
                    Go(unknown_tool(l, tool_name), ReturnPc(l))
             [] tool_name.v = "get_default_branch" ->
                    IF l.at = 0 THEN Go(Call(EmptyDict), "get_default_branch")
                    ELSE Result([default_branch |-> l.ret_val])
             [] tool_name.v = "create_branch" ->
                    IF l.at = 1 THEN Result([branch |-> l.ret_val])
                    ELSE IF "new_branch" \notin DOMAIN arguments.v THEN Fail(KeyError("new_branch"))
                    ELSE Go(Call([new_branch |-> arguments.v["new_branch"],
                                  from_branch |-> Get(arguments, "from_branch")]), "create_branch")
             [] tool_name.v = "list_files" ->
                    IF l.at = 0 THEN Go(Call([branch |-> Get(arguments, "branch")]), "list_files")
                    ELSE Result(list_files_result(l.ret_val))
             [] tool_name.v = "read_file" ->
                    IF l.at = 1 THEN Result([path |-> arguments.v["path"], content |-> l.ret_val])
                    ELSE IF "path" \notin DOMAIN arguments.v THEN Fail(KeyError("path"))
                    ELSE Go(Call([path |-> arguments.v["path"],
                                  branch |-> Get(arguments, "branch")]), "read_file")
             [] tool_name.v = "write_file" ->
                    IF l.at = 1
                    THEN Result([path |-> l.vars["payload"].v["path"], commit_sha |-> l.ret_val])
                    ELSE IF ~WriteFileInput(arguments).ok THEN Fail(ValidationError("WriteFileInput"))
                    ELSE Go(Call([payload |-> D(WriteFileInput(arguments).payload)]), "write_file")
             [] OTHER ->
                    IF l.at = 1 THEN Result([pull_request_url |-> l.ret_val])
                    ELSE IF ~PullRequestInput(arguments).ok
                    THEN Fail(ValidationError("PullRequestInput"))
                    ELSE Go(Call([payload |-> D(PullRequestInput(arguments).payload)]),
                            "create_pull_request")
    /\ UNCHANGED <<trace, history, now, active, token, said, persisted, calls, env, pureVars>>

(***************************************************************************)
(* app.py: handle_event, from the provider's answer on.                    *)
(***************************************************************************)
\* Python: str(exc)
exc_str(exc) == IF exc.type = "KeyError" THEN "'" \o exc.msg \o "'" ELSE exc.msg

IsListOf(x, Elem(_)) == x.t = "list" /\ \A i \in 1..Len(x.v) : Elem(x.v[i])

IsPlanStep(x) ==
    /\ x.t = "dict"
    /\ DOMAIN x.v = {"title", "details"}
    /\ NonEmptyStr(x.v, "title") /\ NonEmptyStr(x.v, "details")

IsStrValue(x) == x.t = "str"

PlanLists == {"assumptions", "files_to_touch", "risks", "test_plan", "rollback_plan"}

\* plan_schema.py:8-24  PlanSchema.model_validate(payload): the plan, or the failure
plan_validate(ex) ==
    IF ~ex.ok THEN [ok |-> FALSE, error |-> ex.error, plan |-> EmptyDict]
    ELSE LET p == ex.payload.v
             valid == /\ DOMAIN p \subseteq {"objective", "implementation_steps"} \cup PlanLists
                      /\ NonEmptyStr(p, "objective")
                      /\ "implementation_steps" \in DOMAIN p
                      /\ IsListOf(p["implementation_steps"], IsPlanStep)
                      /\ Len(p["implementation_steps"].v) >= 1
                      /\ \A k \in PlanLists \cap DOMAIN p : IsListOf(p[k], IsStrValue)
         IN  IF valid
             THEN [ok |-> TRUE, error |-> "",
                   plan |-> Update([k \in PlanLists |-> L(<<>>)], p)]
             ELSE [ok |-> FALSE, error |-> "validation error for PlanSchema", plan |-> EmptyDict]

\* plan_schema.py:27-29  parse_plan_response
parse_plan_response(text) == plan_validate(extract_first_json_object(text))

\* app.py:102-131  format_plan_for_slack
format_plan_for_slack(plan) ==
    LET Items(k, pre, post) == [i \in 1..Len(plan[k].v) |-> pre \o plan[k].v[i].v \o post]
        steps == plan["implementation_steps"].v
        Section(k, title, pre, post, blank_first) ==
            IF Len(plan[k].v) = 0 THEN <<>>
            ELSE IF blank_first THEN <<"", title>> \o Items(k, pre, post)
            ELSE <<title>> \o Items(k, pre, post) \o <<"">>
    IN  JoinLines(<<"*Plan Mode Output*", "*Objective*: " \o plan["objective"].v, "">>
                  \o Section("assumptions", "*Assumptions*", "- ", "", FALSE)
                  \o Section("files_to_touch", "*Files To Touch*", "- '", "'", FALSE)
                  \o <<"*Implementation Steps*">>
                  \o [i \in 1..Len(steps) |->
                        IntStr(i) \o ". " \o steps[i].v["title"].v \o ": " \o steps[i].v["details"].v]
                  \o Section("risks", "*Risks*", "- ", "", TRUE)
                  \o Section("test_plan", "*Test Plan*", "- ", "", TRUE)
                  \o Section("rollback_plan", "*Rollback Plan*", "- ", "", TRUE))

\* logger.py:117-123  TraceStore.persist: an unfinished root is finished with its
\* own status, and the document printed
persist(tr, t) ==
    LET done == [tr EXCEPT !.spans = span_finish(@, Root, tr.spans[Root].status, EmptyDict, t)]
    IN  [trace |-> done, document |-> trace_as_dict(done)]

\* whether say raises (the Slack client's call fails) or returns
SayOutcomes == IF env.faults THEN {"ok", "raise"} ELSE {"ok"}

\* app.py:68-85, 94  handle_event after provider.respond returned: the provider
\* span, the plan validation in plan mode, the span of say
responded_with(r, plan) ==
    LET t    == now[r]
        text == loc[r].response
        sp1  == span_finish(Spans(r), loc[r].provider_span, "ok",
                            [text_length |-> N(Len(text))], t)
        sp2  == span_event(sp1, Root, "response.ready", "ok",
                           [provider |-> S(ProviderName), text_length |-> N(Len(text))], t + 1)
        sp3  == span_child(sp2, Root, "plan.validate", EmptyDict, t + 2)
        sp4  == IF plan.ok THEN span_finish(sp3, Len(sp3), "ok", EmptyDict, t + 3)
                ELSE span_event(span_finish(sp3, Len(sp3), "error",
                                            [error |-> S(plan.error)], t + 3),
                                Root, "plan.validation.failed", "warn",
                                [error |-> S(plan.error)], t + 4)
    IN  /\ trace' = [trace EXCEPT ![r].spans =
                span_child(IF loc[r].mode = "plan" THEN sp4 ELSE sp2,
                           Root, "slack.say", EmptyDict, t + 5)]
        /\ loc' = [loc EXCEPT ![r].outgoing_text =
                IF loc[r].mode # "plan" THEN text
                ELSE IF plan.ok THEN format_plan_for_slack(plan.plan)
                ELSE "Plan mode was requested, but I could not parse a valid plan schema. "
                     \o "Returning raw model output below:\n\n" \o text]
        /\ calls' = [calls EXCEPT ![r] =
                Append(@, Entry("respond_returned", text, "", loc[r].iterations))]

responded(r) ==
    /\ pc[r] = "responded"
    /\ responded_with(r, parse_plan_response(loc[r].response))
    /\ now' = [now EXCEPT ![r] = @ + 6]
    /\ pc' = [pc EXCEPT ![r] = "say"]
    /\ UNCHANGED <<history, active, token, said, persisted, env, pureVars>>

\* app.py:95-99  say, and after it the end of the success path
say(r) ==
    /\ pc[r] = "say"
    /\ \E o \in SayOutcomes :
        IF o = "raise"
        THEN /\ pc' = [pc EXCEPT ![r] = "crashed"]
             /\ calls' = [calls EXCEPT ![r] = Append(@, Entry("say", "raise", "", 0))]
             /\ UNCHANGED <<trace, said, persisted>>
        ELSE LET t   == now[r]
                 sp1 == span_finish(Spans(r), Len(Spans(r)), "ok", EmptyDict, t)
                 sp2 == span_event(sp1, Root, "response.sent", "ok", EmptyDict, t + 1)
                 sp3 == span_finish(sp2, Root, "ok", EmptyDict, t + 2)
                 out == persist([trace[r] EXCEPT !.spans = sp3], t + 3)
             IN  /\ said' = [said EXCEPT ![r] = Append(@, loc[r].outgoing_text)]
                 /\ trace' = [trace EXCEPT ![r] = out.trace]
                 /\ persisted' = [persisted EXCEPT ![r] = Append(@, out.document)]
                 /\ calls' = [calls EXCEPT ![r] =
                         Append(Append(@, Entry("say", "ok", "", 0)), Entry("persist", "", "", 0))]
                 /\ pc' = [pc EXCEPT ![r] = "done"]
    /\ now' = [now EXCEPT ![r] = @ + 4]
    /\ UNCHANGED <<loc, history, active, token, env, pureVars>>

ErrorPrefix == "Sorry, I hit an error while processing your request: "

\* app.py:86-92  the except branch of handle_event
except(r) ==
    /\ pc[r] = "except"
    /\ LET t   == now[r]
           msg == exc_str(loc[r].exc)
           sp1 == span_finish(Spans(r), loc[r].provider_span, "error", [error |-> S(msg)], t)
           sp2 == span_finish(sp1, Root, "error", [error |-> S(msg)], t + 1)
           sp3 == span_event(sp2, Root, "request.error", "error", [error |-> S(msg)], t + 2)
           out == persist([trace[r] EXCEPT !.spans = sp3], t + 3)
       IN  /\ trace' = [trace EXCEPT ![r] = out.trace]
           /\ persisted' = [persisted EXCEPT ![r] = Append(@, out.document)]
           /\ \E o \in SayOutcomes :
                /\ said' = [said EXCEPT ![r] = IF o = "ok" THEN Append(@, ErrorPrefix \o msg) ELSE @]
                /\ calls' = [calls EXCEPT ![r] =
                        Append(Append(@, Entry("persist", "", "", 0)), Entry("say", o, "error", 0))]
                /\ pc' = [pc EXCEPT ![r] = IF o = "ok" THEN "failed" ELSE "crashed"]
    /\ now' = [now EXCEPT ![r] = @ + 4]
    /\ UNCHANGED <<loc, history, active, token, env, pureVars>>

(***************************************************************************)
(* The specifications.                                                     *)
(***************************************************************************)
\* the steps of request r, from the Slack event to the end of handle_event
Step(r) ==
    \/ handle_event(r)
    \/ respond(r)
    \/ generate_text(r)
    \/ respond_direct(r)
    \/ with_trace(r)
    \/ with_trace_exit(r)
    \/ request_start(r)
    \/ request_finish(r)
    \/ ensure_repo_write_access(r)
    \/ respond_loop(r)
    \/ respond_step(r)
    \/ execute_tool_inner(r)
    \/ get_default_branch(r)
    \/ create_branch(r)
    \/ list_files(r)
    \/ read_file(r)
    \/ write_file(r)
    \/ create_pull_request(r)
    \/ respond_tool_done(r)
    \/ responded(r)
    \/ say(r)
    \/ except(r)

LongPrompts == {"look at https://github.com/acme/widgets"}

\* the environments a request is served in: one whose oracle may go on asking
\* for tools up to the step limit; one whose first phases meet any answer; one
\* whose first generation calls meet transport failures
EnvLong ==
    [tool_answers |-> StepLimit, varied |-> 0, flaky |-> 0, prompts |-> LongPrompts,
     turns |-> <<TextGetDefaultBranch, TextListFiles>>, faults |-> TRUE]
EnvVaried ==
    [tool_answers |-> VariedSteps, varied |-> VariedSteps + 1, flaky |-> 0, prompts |-> Prompts,
     turns |-> <<TextGetDefaultBranch>>, faults |-> TRUE]
EnvFlaky ==
    [tool_answers |-> FlakyCalls, varied |-> 0, flaky |-> FlakyCalls, prompts |-> Prompts,
     turns |-> <<TextGetDefaultBranch>>, faults |-> TRUE]

\* one request, served alone
Init ==
    /\ WfInit
    /\ env \in {EnvLong, EnvVaried, EnvFlaky}
    /\ PureIdle

Next == Step(1)

Spec == Init /\ [][Next]_vars

EnvConc ==
    [tool_answers |-> ConcSteps, varied |-> 0, flaky |-> 0, prompts |-> LongPrompts,
     turns |-> <<TextGetDefaultBranch>>, faults |-> FALSE]

\* where a request is about to touch what the requests share (the active span
\* of the tools, and through it a trace), has not begun, or is over
SharedPcs == {"idle", "with_trace", "with_trace_exit", "request", "request_wait"}
EndPcs == {"done", "failed", "crashed"}

\* two requests served by two threads of the one process, which share the
\* provider and its GithubTools; a thread is switched out only where it is about
\* to touch what they share, since its other steps touch its own request only
InitConc ==
    /\ WfInit
    /\ env = EnvConc
    /\ PureIdle

Scheduled(r) == \A q \in Reqs \ {r} : pc[q] \in SharedPcs \cup EndPcs

\* the steps a request takes when the oracle asks for get_default_branch only
StepConc(r) ==
    \/ Scheduled(r) /\ handle_event(r)
    \/ Scheduled(r) /\ respond(r)
    \/ Scheduled(r) /\ generate_text(r)
    \/ Scheduled(r) /\ with_trace(r)
    \/ Scheduled(r) /\ with_trace_exit(r)
    \/ Scheduled(r) /\ request_start(r)
    \/ Scheduled(r) /\ request_finish(r)
    \/ Scheduled(r) /\ ensure_repo_write_access(r)
    \/ Scheduled(r) /\ respond_loop(r)
    \/ Scheduled(r) /\ respond_step(r)
    \/ Scheduled(r) /\ execute_tool_inner(r)
    \/ Scheduled(r) /\ get_default_branch(r)
    \/ Scheduled(r) /\ respond_tool_done(r)
    \/ Scheduled(r) /\ responded(r)
    \/ Scheduled(r) /\ say(r)
    \/ Scheduled(r) /\ except(r)

NextConc == \E r \in Reqs : StepConc(r)

SpecConc == InitConc /\ [][NextConc]_vars

(***************************************************************************)
(* logger.py on its own: span operations in any order, and serialization.  *)
(***************************************************************************)
\* no request is being served
WfIdle ==
    /\ WfInit
    /\ token = TRUE
    /\ env = EnvConc

\* how many operations are applied to the tree
MaxOps == 4

\* how many spans the tree may hold
MaxSpans == (MaxOps \div 2) + 1

\* the calls of finish: a status and the data given with it
FinishCalls ==
    {[status |-> "ok", data |-> [result |-> S("sent")]],
     [status |-> "error", data |-> [error |-> S("boom"), result |-> S("none")]]}

InitFinish ==
    /\ WfIdle
    /\ fin = [spans |-> <<TraceSpan("request.lifecycle", EmptyDict, 1)>>, clock |-> 2]
    /\ finlog = <<>>
    /\ red = NoData
    /\ ext = NoText
    /\ lst = NoListing
    /\ scp = NoScopes

\* logger.py:61-64  child(name) on any span of the tree
fin_child ==
    /\ fin.clock < MaxOps + 2
    /\ Len(fin.spans) < MaxSpans
    /\ \E i \in 1..Len(fin.spans) :
        fin' = [spans |-> span_child(fin.spans, i, "child", EmptyDict, fin.clock),
                clock |-> fin.clock + 1]
    /\ UNCHANGED <<finlog, red, ext, lst, scp, wfVars>>

\* logger.py:58-59  event(name) on any span of the tree
fin_event ==
    /\ fin.clock < MaxOps + 2
    /\ \E i \in 1..Len(fin.spans) :
        fin' = [spans |-> span_event(fin.spans, i, "note", "info", EmptyDict, fin.clock),
                clock |-> fin.clock + 1]
    /\ UNCHANGED <<finlog, red, ext, lst, scp, wfVars>>

\* logger.py:66-73  finish(status, **data) on any span of the tree; the call is
\* logged with the span as it found and as it left it
fin_finish ==
    /\ fin.clock < MaxOps + 2
    /\ \E i \in 1..Len(fin.spans) : \E c \in FinishCalls :
        /\ fin' = [spans |-> span_finish(fin.spans, i, c.status, c.data, fin.clock),
                   clock |-> fin.clock + 1]
        /\ finlog' = Append(finlog,
                [span |-> i, status |-> c.status, data |-> c.data, at |-> fin.clock,
                 before |-> fin.spans[i],
                 after |-> span_finish(fin.spans, i, c.status, c.data, fin.clock)[i]])
    /\ UNCHANGED <<red, ext, lst, scp, wfVars>>

\* logger.py:117-120  TraceStore.persist on the trace of the tree: a root still
\* open is finished with the status it has, and that call of finish is logged
fin_persist ==
    /\ fin.clock < MaxOps + 2
    /\ LET out == persist([NoTrace EXCEPT !.spans = fin.spans], fin.clock).trace.spans
       IN  /\ fin' = [spans |-> out, clock |-> fin.clock + 1]
           /\ finlog' = IF fin.spans[Root].finished_at # NoTime THEN finlog
                        ELSE Append(finlog,
                                [span |-> Root, status |-> fin.spans[Root].status,
                                 data |-> EmptyDict, at |-> fin.clock,
                                 before |-> fin.spans[Root], after |-> out[Root]])
    /\ UNCHANGED <<red, ext, lst, scp, wfVars>>

NextFinish == fin_child \/ fin_event \/ fin_finish \/ fin_persist

SpecFinish == InitFinish /\ [][NextFinish]_vars

\* how deep a data mapping is nested
MaxDepth == 2

RedactKeys == {"api_key", "Authorization", "github_token", "client_secret", "note"}
RedactValues == {S("abc123"), S("my secret plan"), S("Bearer TOKEN-1"), S("plain"), N(7)}

\* the mappings of one key, and those that hold one of them at some depth,
\* in a mapping or in a list
RECURSIVE Nested(_)
Nested(depth) ==
    IF depth = 0 THEN {D([k \in {key} |-> value]) : key \in RedactKeys, value \in RedactValues}
    ELSE Nested(depth - 1)
         \cup {D([inner |-> x]) : x \in Nested(depth - 1)}
         \cup {D([items |-> L(<<x>>)]) : x \in Nested(depth - 1)}

InitRedact ==
    /\ WfIdle
    /\ fin = <<>>
    /\ finlog = <<>>
    /\ red \in {[NoData EXCEPT !.in = x] : x \in Nested(MaxDepth)}
    /\ ext = NoText
    /\ lst = NoListing
    /\ scp = NoScopes

\* logger.py:101-107  as_dict of a trace whose metadata, root span and one
\* event carry the mapping
serialize ==
    /\ red.out = None
    /\ LET stored == [RequestTrace("req", red.in.v, 1) EXCEPT
                        !.spans = span_event(<<TraceSpan("request.lifecycle", red.in.v, 1)>>,
                                             Root, "note", "info", red.in.v, 2)]
       IN  red' = [red EXCEPT !.out = D(trace_as_dict(stored)),
                              !.kept = trace_after_as_dict(stored)]
    /\ UNCHANGED <<fin, finlog, ext, lst, scp, wfVars>>

\* logger.py:101-107  as_dict once more, of the trace as the first call left it
serialize_again ==
    /\ red.out # None
    /\ red.again = None
    /\ red' = [red EXCEPT !.again = D(trace_as_dict(red.kept)),
                          !.kept = trace_after_as_dict(red.kept)]
    /\ UNCHANGED <<fin, finlog, ext, lst, scp, wfVars>>

NextRedact == serialize \/ serialize_again

SpecRedact == InitRedact /\ [][NextRedact]_vars

(***************************************************************************)
(* json_utils.py on its own: the extractor applied to texts built from     *)
(* values.  A value to be written holds its members in order, as a Python  *)
(* dict does.                                                              *)
(***************************************************************************)
JStr(s) == [t |-> "str", v |-> s]
JInt(n) == [t |-> "int", v |-> n]
JArr(items) == [t |-> "list", v |-> items]
JObj(members) == [t |-> "dict", v |-> members]
Member(k, v) == [k |-> k, v |-> v]

\* the value json.loads is to give back for a written value
RECURSIVE value_of(_)
value_of(jv) ==
    CASE jv.t = "dict" ->
            D([key \in {jv.v[i].k : i \in DOMAIN jv.v} |->
                value_of(jv.v[CHOOSE i \in DOMAIN jv.v :
                                jv.v[i].k = key /\ \A j \in DOMAIN jv.v : jv.v[j].k = key => j <= i].v)])
      [] jv.t = "list" -> L([i \in DOMAIN jv.v |-> value_of(jv.v[i])])
      [] OTHER -> jv

\* a character of a string as JSON writes it
escape_char(c) ==
    CASE c = "\"" -> "\\\""
      [] c = "\\" -> "\\\\"
      [] c = "\n" -> "\\n"
      [] c = "\t" -> "\\t"
      [] c = "\r" -> "\\r"
      [] OTHER -> c

RECURSIVE escape(_)
escape(s) ==
    IF Len(s) <= 1 THEN escape_char(s)
    ELSE escape(SubSeq(s, 1, Len(s) \div 2)) \o escape(SubSeq(s, Len(s) \div 2 + 1, Len(s)))

\* the JSON text of a value, as json.dumps(value, ensure_ascii=False) writes it
RECURSIVE json_text(_)
RECURSIVE json_text_members(_)
RECURSIVE json_text_items(_)
json_text_members(members) ==
    IF members = <<>> THEN ""
    ELSE "\"" \o escape(members[1].k) \o "\": " \o json_text(members[1].v)
            \o (IF Len(members) = 1 THEN "" ELSE ", " \o json_text_members(Tail(members)))

json_text_items(items) ==
    IF items = <<>> THEN ""
    ELSE json_text(items[1])
            \o (IF Len(items) = 1 THEN "" ELSE ", " \o json_text_items(Tail(items)))

json_text(jv) ==
    CASE jv.t = "dict" -> "{" \o json_text_members(jv.v) \o "}"
      [] jv.t = "list" -> "[" \o json_text_items(jv.v) \o "]"
      [] jv.t = "str" -> "\"" \o escape(jv.v) \o "\""
      [] OTHER -> IntStr(jv.v)

\* how deep the written objects are nested
MaxNest == 1

\* string values: braces, quotes and backslashes, a line separator, a fence
ExtractStrings ==
    {"x", "{", "}", "a\"b", "c\\d", "\\", "{\"}", "}\\\"{",
     "a" \o LineSeparator \o "b", Fence}

\* the objects of one member with such a value, and those that hold one of
\* them beside a number
RECURSIVE ExtractObjects(_)
ExtractObjects(depth) ==
    IF depth = 0
    THEN {JObj(<<>>)} \cup {JObj(<<Member("a", JStr(x))>>) : x \in ExtractStrings}
    ELSE ExtractObjects(depth - 1)
         \cup {JObj(<<Member("o", x), Member("n", JInt(depth))>>) : x \in ExtractObjects(depth - 1)}

\* the values that are no object: arrays (one of objects) and scalars
ExtractOthers ==
    {JArr(<<JInt(1), JInt(2)>>), JArr(<<JObj(<<Member("a", JInt(1))>>)>>), JArr(<<>>),
     JInt(42), JStr("hi"), JStr("{")}

\* what may follow the object
ExtractTrailings == {"", " ", " Done.", "  tail  ", "\n} {\"x\": 1} ", "]", "\n"}

\* what may come before it
ExtractLeads == {"", " \n"}

\* texts that hold no object
ExtractBare ==
    {"", "I cannot do that.", "[1, 2]", Fence \o "json {\"a\": 1}\n" \o Fence,
     Fence \o "\n" \o Fence, "} done"}

Text(layout, value, lead, trailing, text) ==
    [layout |-> layout, value |-> value, lead |-> lead, trailing |-> trailing,
     text |-> text, out |-> None]

\* an object and what follows it
PlainTexts ==
    {Text("plain", o, lead, trailing, lead \o json_text(o) \o trailing) :
        o \in ExtractObjects(MaxNest), lead \in ExtractLeads, trailing \in ExtractTrailings}

\* an object in a fenced block, with whitespace around the block
FencedTexts ==
    {Text("fenced", o, lead, "",
          lead \o Fence \o info \o "\n" \o json_text(o) \o "\n" \o Fence \o lead) :
        o \in ExtractObjects(MaxNest), lead \in ExtractLeads, info \in {"", "json"}}

\* an object cut before its end
CutTexts ==
    UNION {{Text("cut", o, "", "", SubSeq(json_text(o), 1, n)) : n \in 1..(Len(json_text(o)) - 1)} :
            o \in ExtractObjects(MaxNest)}

\* a value that is no object
OtherTexts == {Text("other", v, "", "", json_text(v)) : v \in ExtractOthers}

BareTexts == {Text("bare", None, "", "", t) : t \in ExtractBare}

\* what may come before the object when it is quoted prose: a double-quoted
\* string that holds a brace, a pair of braces, or none
QuotedLeads == {"He said \"{\" then ", "\"{\" ", "x \"{}\" ", "see \"a\" "}

\* an object after such prose
QuotedTexts ==
    {Text("quoted", o, lead, "", lead \o json_text(o)) :
        o \in ExtractObjects(0), lead \in QuotedLeads}

InitExtract ==
    /\ WfIdle
    /\ fin = <<>>
    /\ finlog = <<>>
    /\ red = NoData
    /\ ext \in PlainTexts \cup FencedTexts \cup CutTexts \cup OtherTexts \cup BareTexts
                \cup QuotedTexts
    /\ lst = NoListing
    /\ scp = NoScopes

\* json_utils.py:19-58  extract_first_json_object(text): the pair returned, or
\* the ValueError raised
extract ==
    /\ ext.out = None
    /\ ext' = [ext EXCEPT !.out = extract_first_json_object(ext.text)]
    /\ UNCHANGED <<fin, finlog, red, lst, scp, wfVars>>

NextExtract == extract

SpecExtract == InitExtract /\ [][NextExtract]_vars

\* the tabulated values of json.loads are those the parser computes
JsonDocsParsed ==
    \A d \in 1..Len(JsonDocs) : json_parse(JsonDocs[d].raw) = [ok |-> TRUE, value |-> JsonDocs[d].value]

\* the parser reads back what was written
JsonTextParsed ==
    \A v \in ExtractObjects(MaxNest) \cup ExtractOthers :
        json_parse(json_text(v)) = [ok |-> TRUE, value |-> value_of(v)]

(***************************************************************************)
(* The claims.                                                             *)
(***************************************************************************)
\* the entries of the log of request r that name the collaborator op
Ops(r, op) == SelectSeq(calls[r], LAMBDA e : e.op = op)
Count(r, op) == Len(Ops(r, op))

\* the entries made for the loop: an iteration begun, its generation call,
\* its attempts, its tool
IsLoopEntry(e) ==
    \/ e.op \in {"step", "execute_tool"}
    \/ e.op = "generate" /\ e.a = "step"
    \/ e.op = "urlopen" /\ e.b = "step"

\* where handle_event is once respond has returned normally
ReturnedPcs == {"responded", "say", "done"}

\* C1: the loop begins at most 12 iterations, whatever the oracle and the
\* host answer; and when respond returns from the tool workflow without the
\* oracle ever having written a final action, it has run exactly 12 iterations
\* and returns the fixed step-limit message
LoopBounded ==
    \A r \in Reqs :
        /\ loc[r].iterations <= StepLimit
        /\ Count(r, "step") <= StepLimit
        /\ Len(history[r]) = StepLimit =>
                pc[r] \notin {"generate_text", "respond_step", "with_trace", "execute_tool_inner"}
        /\ (/\ Count(r, "respond_returned") = 1
            /\ Count(r, "ensure_repo_write_access") = 1
            /\ ~IsStr(Get(loc[r].action, "type"), "final"))
           => /\ loc[r].iterations = StepLimit
              /\ Count(r, "step") = StepLimit
              /\ Len(history[r]) = StepLimit
              /\ loc[r].response = StepLimitMessage

LoopBoundedWitness ==
    \E r \in Reqs :
        /\ pc[r] = "done"
        /\ loc[r].iterations = StepLimit
        /\ Count(r, "execute_tool") = StepLimit
        /\ said[r] = <<StepLimitMessage>>

\* C2: once all 12 iterations have ended with a tool result, respond returns:
\* no exception is pending, the response is the step-limit message,
\* handle_event goes on to say it and never says the error text
StepLimitReturns ==
    \A r \in Reqs :
        (Len(history[r]) = StepLimit /\ pc[r] # "respond_loop")
        => /\ pc[r] \in ReturnedPcs \cup {"crashed"}
           /\ loc[r].exc = NoExc
           /\ loc[r].response = StepLimitMessage
           /\ \A k \in DOMAIN calls[r] : ~(calls[r][k].op = "say" /\ calls[r][k].b = "error")
           /\ pc[r] = "say" => loc[r].outgoing_text = StepLimitMessage
           /\ pc[r] = "done" => said[r] = <<StepLimitMessage>>

StepLimitReturnsWitness ==
    \E r \in Reqs :
        /\ pc[r] = "say"
        /\ Len(history[r]) = StepLimit
        /\ loc[r].outgoing_text = StepLimitMessage

\* the history holds the tool calls executed so far, in their order
HistoryInCallOrder(r) ==
    /\ Len(history[r]) <= Count(r, "execute_tool")
    /\ \A k \in 1..Len(history[r]) : history[r][k].assistant = Ops(r, "execute_tool")[k].b
    /\ (pc[r] \in ReturnedPcs /\ IsStr(Get(loc[r].action, "type"), "final"))
       => /\ Len(history[r]) = Count(r, "execute_tool")
          /\ Len(history[r]) = loc[r].iterations - 1

\* a step leaves the history as it is or appends one entry to it
HistoryGrows(r) ==
    \/ history'[r] = history[r]
    \/ /\ Len(history'[r]) = Len(history[r]) + 1
       /\ SubSeq(history'[r], 1, Len(history[r])) = history[r]

\* the step that takes a final action leaves the history as it is
FinalAddsNothing(r) ==
    (pc[r] = "respond_step" /\ pc'[r] = "responded") => history'[r] = history[r]

\* C3: after N tool calls and a final action the history holds exactly the N
\* entries of those calls in the order they were executed; no step removes or
\* reorders an entry, and the step that takes the final action adds none
HistoryMonotonic ==
    /\ [](\A r \in Reqs : HistoryInCallOrder(r))
    /\ [][\A r \in Reqs : HistoryGrows(r) /\ FinalAddsNothing(r)]_vars

HistoryMonotonicWitness ==
    \E r \in Reqs :
        /\ pc[r] = "done"
        /\ IsStr(Get(loc[r].action, "type"), "final")
        /\ Len(history[r]) = 3
        /\ history[r][1] # history[r][2]

\* the texts of the model in which re.search finds no repository URL
TextsWithoutRepoUrl == {p \in Prompts \cup LongPrompts \cup {""} : ~HasRepoUrl(p)}

\* C4: for a text without a repository URL the generation interface is called
\* once, respond returns the text it gave, the history stays empty, and neither
\* the access check nor a tool is called
DirectAnswer ==
    \A r \in Reqs :
        (pc[r] \notin {"idle", "crashed"} /\ loc[r].text \in TextsWithoutRepoUrl)
        => /\ history[r] = <<>>
           /\ Count(r, "ensure_repo_write_access") = 0
           /\ Count(r, "access_check") = 0
           /\ Count(r, "execute_tool") = 0
           /\ Count(r, "github") = 0
           /\ Count(r, "step") = 0
           /\ Count(r, "generate") <= 1
           /\ pc[r] \in ReturnedPcs =>
                /\ Count(r, "generate") = 1
                /\ loc[r].response = loc[r].model_text

DirectAnswerWitness ==
    \E r \in Reqs :
        /\ pc[r] = "done"
        /\ loc[r].text = "hello there"
        /\ said[r] = <<"Hello!">>
        /\ Count(r, "generate") = 1

\* the entries of the log of request r that ask for a tool outside the fixed set
UnknownCalls(r) ==
    {k \in DOMAIN calls[r] : calls[r][k].op = "execute_tool" /\ calls[r][k].a \notin ToolNames}

\* C5: once a step asks for a tool outside the fixed set, the request makes no
\* repository call, begins no iteration and no generation call, appends
\* nothing to the history, and respond ends with the unknown-tool error, which
\* handle_event reports
UnknownToolFatal ==
    \A r \in Reqs : \A k \in UnknownCalls(r) :
        /\ \A j \in (k + 1)..Len(calls[r]) :
                calls[r][j].op \notin {"github", "trace_event", "generate", "urlopen", "step",
                                       "execute_tool", "respond_returned"}
        /\ Len(history[r]) = calls[r][k].n - 1
        /\ loc[r].iterations = calls[r][k].n
        /\ pc[r] \in {"with_trace", "execute_tool_inner", "with_trace_exit", "except",
                      "failed", "crashed"}
        /\ pc[r] \in {"except", "failed"} =>
                loc[r].exc = RuntimeError("Unknown tool requested by Gemini: " \o calls[r][k].a)
        /\ pc[r] = "failed" =>
                said[r] = <<ErrorPrefix \o "Unknown tool requested by Gemini: " \o calls[r][k].a>>

UnknownToolFatalWitness ==
    \E r \in Reqs :
        /\ pc[r] = "failed"
        /\ UnknownCalls(r) # {}
        /\ Len(history[r]) = 1
        /\ loc[r].exc = RuntimeError("Unknown tool requested by Gemini: delete_repo")

\* C6: a request checks access at most once, and every iteration, generation
\* call of the loop and tool call of the request comes after an access check
\* that returned; a check the host answers with an
\* error or without push rights raises, and after a check that raised the
\* request has no iteration, no generation call and no tool call
AccessCheckFirst ==
    \A r \in Reqs :
        /\ \A k \in DOMAIN calls[r] :
                IsLoopEntry(calls[r][k]) =>
                    \E j \in 1..(k - 1) :
                        calls[r][j].op = "access_check" /\ calls[r][j].b = "returned"
        /\ \A k \in DOMAIN calls[r] :
                calls[r][k].op = "access_check" =>
                    /\ calls[r][k].a \in {"error", "no_push"} => calls[r][k].b = "raised"
                    /\ calls[r][k].b = "raised" =>
                        /\ loc[r].iterations = 0
                        /\ history[r] = <<>>
                        /\ \A j \in DOMAIN calls[r] : ~IsLoopEntry(calls[r][j])
                        /\ Count(r, "respond_returned") = 0
                        /\ pc[r] \in {"with_trace_exit", "except", "failed", "crashed"}
        /\ Count(r, "ensure_repo_write_access") <= 1
        /\ Count(r, "access_check") <= Count(r, "ensure_repo_write_access")

AccessCheckFirstWitness ==
    \E r \in Reqs :
        /\ pc[r] = "failed"
        /\ \E k \in DOMAIN calls[r] :
                calls[r][k] = Entry("access_check", "no_push", "raised", 0)
        /\ loc[r].exc = RuntimeError("GITHUB_TOKEN has no push access to this repo.")

\* the span of the workflow that is open when respond fails: the tool call's,
\* else the iteration's, else the workflow's
ActiveSpanAtFailure(r) ==
    IF loc[r].tool_span # 0 THEN loc[r].tool_span
    ELSE IF loc[r].step_span # 0 THEN loc[r].step_span
    ELSE loc[r].llm_span

\* C7: when respond fails, the failure reaches handle_event and the span of
\* the workflow that was open at the failure is finished with status error
FatalFinishesActiveSpan ==
    \A r \in Reqs :
        (pc[r] \in {"except", "failed"} /\ loc[r].llm_span # 0)
        => /\ loc[r].exc # NoExc
           /\ Spans(r)[ActiveSpanAtFailure(r)].status = "error"
           /\ Spans(r)[ActiveSpanAtFailure(r)].finished_at # NoTime

\* C8: every event the tools trace for a request (github.http.*,
\* github.auth.error) is put in a span of that request's own trace
ToolEventsInOwnTrace ==
    \A r \in Reqs : \A k \in DOMAIN calls[r] :
        calls[r][k].op = "trace_event" => calls[r][k].n = r

\* the calls of finish made on span i, in order
FinishesOf(i) == SelectSeq(finlog, LAMBDA c : c.span = i)

\* C9: finish on a finished span leaves the span as it is, and a span keeps the
\* status, finished_at, duration and data that its first finish gave it
FinishIdempotent ==
    /\ \A k \in DOMAIN finlog :
            finlog[k].before.finished_at # NoTime => finlog[k].after = finlog[k].before
    /\ \A i \in 1..Len(fin.spans) :
            FinishesOf(i) # <<>> =>
                LET first == FinishesOf(i)[1]
                IN  /\ fin.spans[i].status = first.status
                    /\ fin.spans[i].finished_at = first.at
                    /\ fin.spans[i].duration_ms = (first.at - first.before.started_at_monotonic) * 1000
                    /\ fin.spans[i].data = Update(first.before.data, first.data)

FinishIdempotentWitness ==
    \E i \in 1..Len(fin.spans) :
        /\ Len(FinishesOf(i)) >= 2
        /\ FinishesOf(i)[1].status # FinishesOf(i)[2].status
        /\ FinishesOf(i)[1].data # FinishesOf(i)[2].data
        /\ FinishesOf(i)[1].at < FinishesOf(i)[2].at

\* a key that holds one of the four words, in any case
SensitiveKey(key) == HasRedactWord(key)

\* whether the serialization out of the data x holds, at some depth, the
\* string x has under a sensitive key
RECURSIVE Leaks(_, _)
Leaks(x, out) ==
    CASE x.t = "dict" ->
            \E key \in DOMAIN x.v :
                \/ SensitiveKey(key) /\ x.v[key].t = "str" /\ out.v[key] = x.v[key]
                \/ Leaks(x.v[key], out.v[key])
      [] x.t = "list" -> \E i \in DOMAIN x.v : Leaks(x.v[i], out.v[i])
      [] OTHER -> FALSE

\* C10: the document never holds the string a data mapping has under a
\* sensitive key, be the mapping the metadata, a span's data or an event's
RedactionByKey ==
    red.out # None =>
        /\ ~Leaks(red.in, D(red.out.v.metadata))
        /\ ~Leaks(red.in, D(red.out.v.trace.data))
        /\ ~Leaks(red.in, D(red.out.v.trace.events[1].data))

\* what extract_first_json_object returns for the object o and the trailing text t
Extracted(o, t) == [ok |-> TRUE, error |-> "", payload |-> value_of(o), trailing |-> t]

\* C11: for a text that is a written object followed by any trailing text, the
\* scan ends at the brace that closes the object, whatever braces, quotes and
\* backslashes its string values hold, and the value returned is the object
ExtractRoundTrip ==
    (ext.layout = "plain" /\ ext.out # None) =>
        /\ scan(ScanInit, ext.text, Len(ext.lead) + 1, Len(ext.text)).end
                = Len(ext.lead) + Len(json_text(ext.value))
        /\ ext.out.ok
        /\ ext.out.payload = value_of(ext.value)

ExtractRoundTripWitness ==
    /\ ext.layout = "plain"
    /\ ext.value = JObj(<<Member("o", JObj(<<Member("a", JStr("}\\\"{"))>>)), Member("n", JInt(1))>>)
    /\ ext.trailing = "\n} {\"x\": 1} "
    /\ ext.out # None
    /\ ext.out.payload = D([o |-> D([a |-> S("}\\\"{")]), n |-> N(1)])

\* C12 as stated: the trailing text returned is what follows the object in the
\* text, character for character
TrailingVerbatim ==
    (ext.layout = "plain" /\ ext.out # None /\ ext.out.ok) => ext.out.trailing = ext.trailing

\* C12: the trailing text returned is what follows the object in the text
\* with the whitespace at its two ends removed
TrailingStripped ==
    (ext.layout = "plain" /\ ext.out # None) =>
        ext.out = Extracted(ext.value, Strip(ext.trailing))

TrailingStrippedWitness ==
    /\ ext.layout = "plain"
    /\ ext.trailing = "  tail  "
    /\ ext.out # None
    /\ ext.out.trailing = "tail"

\* C13: an object in a fenced block, with whitespace around the block, gives
\* the object that its text gives unwrapped
FenceSameObject ==
    (ext.layout = "fenced" /\ ext.out # None) =>
        /\ ext.out.ok
        /\ ext.out.payload = extract_first_json_object(json_text(ext.value)).payload

\* C14: the extractor fails with the no-object error exactly when the text
\* without its fences holds no opening brace, with the unterminated-object
\* error when the object is cut before its end, and returns no value in
\* either case
ExtractFailures ==
    ext.out # None =>
        /\ (ext.out.error = "No JSON object found in text")
                <=> ~Contains(strip_code_fences(ext.text), "{")
        /\ ext.layout = "bare" => ext.out.error = "No JSON object found in text"
        /\ ext.layout = "cut" => ext.out.error = "Unterminated JSON object in text"
        /\ ext.out.error \in {"No JSON object found in text", "Unterminated JSON object in text"}
                => ~ext.out.ok /\ ext.out.payload = None

ExtractFailuresWitness ==
    /\ ext.layout = "cut"
    /\ ext.text = "{\"a\": \"}"
    /\ ext.out # None
    /\ ext.out.error = "Unterminated JSON object in text"

\* C15: for a text whose value is no object (an array, an array of objects, a
\* scalar) the extractor fails with the not-an-object error and returns no
\* object
NotAnObjectRefused ==
    (ext.layout = "other" /\ ext.out # None) =>
        /\ ~ext.out.ok
        /\ ext.out.error = "Top-level JSON payload must be an object"

\* the requests request r sent to the repository host in iteration n, in order
GithubOf(r, n) == SelectSeq(calls[r], LAMBDA e : e.op = "github" /\ e.n = n)

\* the iterations of request r that dispatched write_file
WriteIterations(r) ==
    {calls[r][k].n : k \in {j \in DOMAIN calls[r] :
                                calls[r][j].op = "execute_tool" /\ calls[r][j].a = "write_file"}}

\* write_file sends the lookup first and at most one mutation after it, and
\* both once it has returned
LookupThenOneMutation(r) ==
    \A n \in WriteIterations(r) :
        LET sent == GithubOf(r, n)
        IN  /\ Len(sent) <= 2
            /\ Len(sent) >= 1 =>
                    /\ sent[1].a = "GET"
                    /\ sent[1].b = ContentsPath(loc[r].access, "a.py", "main")
            /\ Len(sent) = 2 => sent[2].a = "PUT" /\ sent[2].b = RepoPath(loc[r].access) \o "/contents/a.py"
            /\ Len(history[r]) >= n => Len(sent) = 2

\* the step of write_file that follows the lookup: a document found with a
\* sha puts that sha in the payload of the mutation, a not-found answer leaves
\* it out, and in both cases the mutation is sent
MutationCarriesSha(r) ==
    (pc[r] = "write_file" /\ loc[r].at = 1 /\ pc'[r] # pc[r]) =>
        LET found == loc[r].ret_val
            sent  == loc'[r].call
        IN  /\ (loc[r].ret_ok /\ Truthy(Get(found, "sha"))) =>
                    /\ pc'[r] = "request" /\ sent.method = "PUT"
                    /\ "sha" \in DOMAIN sent.payload
                    /\ sent.payload["sha"] = found.v["sha"]
            /\ (~loc[r].ret_ok /\ Is404(loc[r].ret_exc)) =>
                    /\ pc'[r] = "request" /\ sent.method = "PUT"
                    /\ "sha" \notin DOMAIN sent.payload
            /\ pc'[r] = "request" =>
                    DOMAIN sent.payload \ {"sha"} = {"message", "content", "branch"}

\* C16: write_file first looks the file up at the target branch; the mutation
\* carries the sha of the document found, or no sha when the lookup answered
\* not-found; exactly one mutation request follows the lookup
WriteUpsert ==
    /\ [](\A r \in Reqs : LookupThenOneMutation(r))
    /\ [][\A r \in Reqs : MutationCarriesSha(r)]_vars

WriteUpsertWitness ==
    \E r \in Reqs :
        /\ WriteIterations(r) # {}
        /\ pc[r] = "request_wait"
        /\ loc[r].call.method = "PUT"
        /\ loc[r].call.payload["sha"] = S("f00d")

TransportFailures == {"timeout", "url_error"}

\* the attempts of request r: the places of its log where urlopen was called
\* for a generation call
Attempts(r) == {k \in DOMAIN calls[r] : calls[r][k].op = "urlopen"}

\* attempt k of the log is a retry: it follows a sleep that follows a
\* transport failure of the attempt before it
FollowsTransportFailure(r, k) ==
    /\ k > 2
    /\ calls[r][k - 1] = Entry("sleep", "", "", calls[r][k].n - 1)
    /\ calls[r][k - 2].op = "urlopen"
    /\ calls[r][k - 2].a \in TransportFailures
    /\ calls[r][k - 2].n = calls[r][k].n - 1
    /\ calls[r][k - 2].b = calls[r][k].b

\* C17: an attempt after the first is made only after a transport failure
\* (timeout, connection error); an error response with a status code ends the
\* generation call at once: no sleep and no attempt follows it, and the
\* request fails with the API error
RetryOnlyTransport ==
    \A r \in Reqs :
        /\ \A k \in Attempts(r) : calls[r][k].n > 1 => FollowsTransportFailure(r, k)
        /\ \A k \in DOMAIN calls[r] :
                calls[r][k].op = "sleep" =>
                    /\ k > 1
                    /\ calls[r][k - 1].op = "urlopen"
                    /\ calls[r][k - 1].a \in TransportFailures
        /\ \A k \in Attempts(r) :
                calls[r][k].a = "http_error" =>
                    /\ \A j \in (k + 1)..Len(calls[r]) :
                            calls[r][j].op \notin {"sleep", "urlopen", "generate"}
                    /\ pc[r] \in {"except", "failed", "crashed"}
                    /\ loc[r].exc = RuntimeError("Gemini API error (500): backend error")

RetryOnlyTransportWitness ==
    \E r \in Reqs : \E k \in Attempts(r) :
        /\ calls[r][k].a = "http_error"
        /\ calls[r][k].n = 2
        /\ calls[r][k - 2].a = "timeout"
        /\ pc[r] = "failed"

\* the generation call that attempt k of the log belongs to has failed for
\* good: the request is in its error path with the error of that attempt
FatalAt(r, k) ==
    /\ \A j \in (k + 1)..Len(calls[r]) : calls[r][j].op \notin {"sleep", "urlopen", "generate"}
    /\ pc[r] \in {"except", "failed", "crashed"}
    /\ loc[r].exc = IF calls[r][k].a = "timeout"
                    THEN RuntimeError("Gemini request timed out after 60s (attempt 3/3)")
                    ELSE RuntimeError("Gemini network error: Connection refused")

\* C18: a generation call makes at most 3 attempts, the first at its start
\* and each later one after a transport failure; an attempt that succeeds is
\* the last of its call; a transport failure is fatal on the third attempt
\* and on no earlier one
RetryBounded ==
    \A r \in Reqs : \A k \in Attempts(r) :
        /\ calls[r][k].n \in 1..3
        /\ calls[r][k].n = 1 => k > 1 /\ calls[r][k - 1].op = "generate"
        /\ calls[r][k].n > 1 => FollowsTransportFailure(r, k)
        /\ (calls[r][k].a = "ok" /\ k < Len(calls[r])) => calls[r][k + 1].op \notin {"sleep", "urlopen"}
        /\ (calls[r][k].a \in TransportFailures /\ calls[r][k].n = 3) => FatalAt(r, k)
        /\ (calls[r][k].a \in TransportFailures /\ calls[r][k].n < 3) =>
                /\ k < Len(calls[r])
                /\ calls[r][k + 1] = Entry("sleep", "", "", calls[r][k].n)
                /\ k + 1 = Len(calls[r]) => pc[r] = "generate_text" /\ loc[r].exc = NoExc

RetryBoundedWitness ==
    \E r \in Reqs : \E k \in Attempts(r) :
        /\ k > 4
        /\ calls[r][k].n = 3 /\ calls[r][k].a = "url_error"
        /\ calls[r][k - 2].a = "timeout"
        /\ calls[r][k - 4].a = "url_error"
        /\ pc[r] = "failed"
        /\ said[r] = <<ErrorPrefix \o "Gemini network error: Connection refused">>

ScenarioText == "fix bug in https://github.com/acme/widgets"

\* the tools request r dispatched, in order
Dispatched(r) == [k \in DOMAIN Ops(r, "execute_tool") |-> Ops(r, "execute_tool")[k].a]

\* C19: a request with the text "fix bug in https://github.com/acme/widgets"
\* takes the tool workflow: it checks access and asks the oracle for steps
\* only; and when the oracle answers list_files and then the final action
\* "Created PR #4", list_files is dispatched once, respond returns
\* "Created PR #4" and the history has one entry
ToolWorkflowScenario ==
    \A r \in Reqs :
        loc[r].text = ScenarioText =>
            /\ \A k \in DOMAIN calls[r] : calls[r][k].op = "generate" => calls[r][k].a = "step"
            /\ pc[r] \in ReturnedPcs =>
                    /\ Count(r, "ensure_repo_write_access") = 1
                    /\ Count(r, "step") >= 1
            /\ (pc[r] \in ReturnedPcs /\ Dispatched(r) = <<"list_files">>
                /\ loc[r].model_text = TextFinal) =>
                    /\ loc[r].response = "Created PR #4"
                    /\ Len(history[r]) = 1

\* C20: a request that handle_event has ended with has had its trace
\* persisted exactly once, the root span finished in the document; no request
\* has its trace persisted twice
PersistedOnce ==
    \A r \in Reqs :
        /\ Len(persisted[r]) <= 1
        /\ pc[r] \in EndPcs =>
                /\ Len(persisted[r]) = 1
                /\ persisted[r][1].trace.finished_at # NoTime

\* the same for the requests whose text is not empty and whose reply Slack
\* accepted
PersistedOnceWhenSaid ==
    \A r \in Reqs :
        /\ Len(persisted[r]) <= 1
        /\ pc[r] \in {"done", "failed"} =>
                /\ Len(persisted[r]) = 1
                /\ persisted[r][1].trace.finished_at # NoTime
                /\ persisted[r][1].trace.status = (IF pc[r] = "done" THEN "ok" ELSE "error")

\* the same for the requests whose text is not empty
PersistedOnceWithText ==
    \A r \in Reqs :
        (pc[r] \in EndPcs /\ loc[r].text # "") =>
            /\ Len(persisted[r]) = 1
            /\ persisted[r][1].trace.finished_at # NoTime

(***************************************************************************)
(* list_files on tree documents of any length around the cap.              *)
(***************************************************************************)
\* how far past the cap the listings go
ListingOver == 2

MaxListing == FilesCap + ListingOver

\* all blobs; every third entry a directory; every fifth blob without a path
ListingKinds == {"blobs", "mixed", "unnamed"}

PathName(i) == "f" \o IntStr(i \div 100) \o "_" \o IntStr(i % 100)

TreeEntry(kind, i) ==
    IF kind = "mixed" /\ i % 3 = 0 THEN D([path |-> S(PathName(i)), type |-> S("tree")])
    ELSE IF kind = "unnamed" /\ i % 5 = 0 THEN D([path |-> S(""), type |-> S("blob")])
    ELSE D([path |-> S(PathName(i)), type |-> S("blob")])

TreeDoc(kind, n) == D([tree |-> L([i \in 1..n |-> TreeEntry(kind, i)])])

InitListing ==
    /\ WfIdle
    /\ fin = <<>>
    /\ finlog = <<>>
    /\ red = NoData
    /\ ext = NoText
    /\ scp = NoScopes
    /\ \E kind \in ListingKinds, n \in 0..MaxListing :
            lst = [kind |-> kind, tree |-> TreeDoc(kind, n), out |-> None]

\* tools.py:190-197, gemini.py:287-290  the list_files tool on the tree the
\* repository answered
listing ==
    /\ lst.out = None
    /\ lst' = [lst EXCEPT !.out = D(list_files_result(tree_files(lst.tree)))]
    /\ UNCHANGED <<fin, finlog, red, ext, scp, wfVars>>

NextListing == listing

SpecListing == InitListing /\ [][NextListing]_vars

\* the paths of the blobs of a tree document, in the document's order
BlobPaths(tree) ==
    LET blobs == SelectSeq(tree.v["tree"].v,
                           LAMBDA e : e.v["type"] = S("blob") /\ e.v["path"].v # "")
    IN  [i \in 1..Len(blobs) |-> blobs[i].v["path"]]

\* C21: the list_files result carries at most 500 paths, the first ones of
\* the listing in order, and total_files is the number of blob paths of the
\* listing, also past 500
ListingCapped ==
    lst.out # None =>
        LET paths == BlobPaths(lst.tree)
            files == lst.out.v["files"].v
        IN  /\ Len(files) = Min(FilesCap, Len(paths))
            /\ files = SubSeq(paths, 1, Len(files))
            /\ lst.out.v["total_files"] = N(Len(paths))

ListingCappedWitness ==
    /\ lst.out # None
    /\ Len(lst.out.v["files"].v) = FilesCap
    /\ lst.out.v["total_files"].v > FilesCap

\* the steps the oracle can write that lack an argument their tool requires,
\* each with the error the dispatcher raises for it
MissingArgumentErrors ==
    (TextReadFileNoPath :> KeyError("path"))
    @@ (TextCreateBranchNoName :> KeyError("new_branch"))
    @@ (TextWriteFileNoContent :> ValidationError("WriteFileInput"))
    @@ (TextCreatePullRequestNoHead :> ValidationError("PullRequestInput"))

\* the entries of the log of request r that dispatch such a step
MissingCalls(r) ==
    {k \in DOMAIN calls[r] :
        calls[r][k].op = "execute_tool" /\ calls[r][k].b \in DOMAIN MissingArgumentErrors}

\* C22: a step that lacks an argument its tool requires sends no request to
\* the repository host, and it is fatal: no later iteration, generation call
\* or tool call, nothing appended to the history, and respond ends with the
\* error of the missing argument, which handle_event reports
ArgumentsValidated ==
    \A r \in Reqs : \A k \in MissingCalls(r) :
        LET error == MissingArgumentErrors[calls[r][k].b]
        IN  /\ GithubOf(r, calls[r][k].n) = <<>>
            /\ \A j \in (k + 1)..Len(calls[r]) :
                    calls[r][j].op \notin {"github", "trace_event", "generate", "urlopen", "step",
                                           "execute_tool", "respond_returned"}
            /\ Len(history[r]) = calls[r][k].n - 1
            /\ pc[r] \in {"with_trace", "execute_tool_inner", "with_trace_exit", "except",
                          "failed", "crashed"}
            /\ pc[r] \in {"except", "failed"} => loc[r].exc = error
            /\ pc[r] = "failed" => said[r] = <<ErrorPrefix \o exc_str(error)>>

ArgumentsValidatedWitness ==
    \E r \in Reqs : \E k \in MissingCalls(r) :
        /\ pc[r] = "failed"
        /\ calls[r][k].a = "write_file"
        /\ history[r] = <<>>
        /\ loc[r].exc = ValidationError("WriteFileInput")

\* C23: an opening brace inside a double-quoted string that precedes the
\* object is not taken as the start of the candidate: the extractor returns
\* the object that follows the quoted string
StartOutsideString ==
    (ext.layout = "quoted" /\ ext.out # None) =>
        /\ ext.out.ok
        /\ ext.out.payload = value_of(ext.value)

\* the same for the quoted strings that hold no brace
StartAfterPlainString ==
    (ext.layout = "quoted" /\ ext.out # None /\ ~Contains(ext.lead, "{")) =>
        /\ ext.out.ok
        /\ ext.out.payload = value_of(ext.value)

\* the answers of a step that hold no action, each with the error it is
\* refused with: no JSON, a tool call without tool, a final without message,
\* another type, no type
RefusedErrors ==
    (TextGarbage :> "Gemini response is not JSON: " \o TextGarbage)
    @@ (TextBadJson :> "Gemini response is not JSON: " \o TextBadJson)
    @@ (TextToolCallNoTool :> "Invalid tool_call payload")
    @@ (TextFinalNoMessage :> "Invalid final payload")
    @@ (TextThought :> "Unsupported action type from Gemini")
    @@ (TextNoType :> "Unsupported action type from Gemini")

\* the decoding of the answer of a step by request r
Classified(r) ==
    LET text == loc[r].model_text
    IN  /\ text \in DOMAIN RefusedErrors =>
                /\ pc'[r] = "except"
                /\ loc'[r].exc = RuntimeError(RefusedErrors[text])
                /\ calls'[r] = calls[r]
                /\ history'[r] = history[r]
        /\ text = TextFinal => pc'[r] = "responded" /\ loc'[r].response = "Created PR #4"
        /\ pc'[r] = "responded" => text = TextFinal
        /\ text = TextToolCallNoArguments =>
                /\ pc'[r] = "with_trace"
                /\ loc'[r].action.v["arguments"] = D(EmptyDict)
        /\ pc'[r] = "with_trace" =>
                /\ text \in ToolCallTexts \ {TextToolCallNoTool}
                /\ {"tool", "arguments"} \subseteq DOMAIN loc'[r].action.v
                /\ calls'[r] = Append(calls[r], Entry("execute_tool", loc'[r].action.v["tool"].v,
                                                      text, loc[r].iterations))
        /\ pc'[r] \in {"except", "responded", "with_trace"}

\* a request whose respond raised goes on to report the error only
Terminated(r) ==
    /\ pc'[r] \in {"except", "failed", "crashed"}
    /\ history'[r] = history[r]
    /\ \A k \in (Len(calls[r]) + 1)..Len(calls'[r]) : calls'[r][k].op \in {"persist", "say"}

\* C24: a decoded object is a final action only with a message and a tool
\* call only with a tool, its arguments an empty mapping when it has none; an
\* answer of another type, of no type, a final without message, a tool call
\* without tool or an answer that is no JSON raises, with no tool dispatched,
\* and the request then runs no further step
ActionClassified ==
    [][\A r \in Reqs :
            /\ pc[r] = "respond_step" => Classified(r)
            /\ pc[r] \in {"except", "failed", "crashed"} => Terminated(r)]_vars

ActionClassifiedWitness ==
    \E r \in Reqs :
        /\ pc[r] = "failed"
        /\ loc[r].model_text = TextFinalNoMessage
        /\ loc[r].exc = RuntimeError("Invalid final payload")
        /\ Count(r, "execute_tool") = 0
        /\ Count(r, "step") = 1

\* the iterations request r began, in order
Begun(r) == Ops(r, "step")

\* C25: iteration k begins with k - 1 entries in the history, one per earlier
\* iteration, so the history never holds more than 12; and a request whose
\* iteration failed in its generation, its decoding or its tool has the
\* history of the iterations before it and begins no later iteration
NoPartialSuccess ==
    \A r \in Reqs :
        /\ Len(history[r]) <= StepLimit
        /\ \A i \in DOMAIN Begun(r) : Begun(r)[i].n = i
        /\ loc[r].iterations = Len(Begun(r))
        /\ \A k \in DOMAIN calls[r] :
                calls[r][k].op = "step" =>
                    /\ k < Len(calls[r])
                    /\ calls[r][k + 1] = Entry("generate", "step", "", calls[r][k].n - 1)
        /\ Len(history[r]) \in {loc[r].iterations - 1, loc[r].iterations}
        /\ (pc[r] \in {"except", "failed"} /\ loc[r].iterations >= 1) =>
                Len(history[r]) = loc[r].iterations - 1
        /\ pc[r] = "respond_loop" => Len(history[r]) = loc[r].iterations

NoPartialSuccessWitness ==
    \E r \in Reqs :
        /\ pc[r] = "failed"
        /\ loc[r].iterations = 3
        /\ Len(history[r]) = 2
        /\ Count(r, "execute_tool") = 3

\* the positions of the spans of request r that bear a name, in creation order
Named(r, name) == {i \in DOMAIN Spans(r) : Spans(r)[i].name = name}

\* the children of span i of request r that bear a name, in order
ChildrenNamed(r, i, name) ==
    SelectSeq(Spans(r)[i].children, LAMBDA c : Spans(r)[c].name = name)

\* the positions a sequence of positions holds
Range(q) == {q[k] : k \in DOMAIN q}

\* C26: the step spans of a request are the children of its one workflow
\* span, one per iteration begun and in the order of the iterations, at most
\* 12; the tool-call spans are children of step spans, every step span has at
\* most one, and iteration k's step span has one exactly when iteration k
\* dispatched a tool
StepsAndToolsSpanned ==
    \A r \in Reqs :
        /\ Cardinality(Named(r, "llm.workflow")) <= 1
        /\ Named(r, "llm.step") # {} => Named(r, "llm.workflow") = {loc[r].llm_span}
        /\ \A w \in Named(r, "llm.workflow") :
                LET steps == ChildrenNamed(r, w, "llm.step")
                IN  /\ Len(steps) = loc[r].iterations
                    /\ Len(steps) <= StepLimit
                    /\ Range(steps) = Named(r, "llm.step")
                    /\ \A k \in DOMAIN steps :
                            LET tools == ChildrenNamed(r, steps[k], "llm.tool_call")
                            IN  /\ Spans(r)[steps[k]].data["index"] = N(k)
                                /\ k > 1 => steps[k - 1] < steps[k]
                                /\ Len(tools) <= 1
                                /\ Len(tools) = Len(SelectSeq(calls[r],
                                        LAMBDA e : e.op = "execute_tool" /\ e.n = k))
                    /\ Named(r, "llm.tool_call")
                            = UNION {Range(ChildrenNamed(r, steps[k], "llm.tool_call")) :
                                        k \in DOMAIN steps}

StepsAndToolsSpannedWitness ==
    \E r \in Reqs :
        /\ loc[r].iterations = StepLimit
        /\ Cardinality(Named(r, "llm.step")) = StepLimit
        /\ Cardinality(Named(r, "llm.tool_call")) = StepLimit
        /\ pc[r] = "done"

\* C27: a span whose finished_at is set has status ok or error, whichever
\* operations were applied to its tree, persist on an open root among them
FinishedOkOrError ==
    \A i \in 1..Len(fin.spans) :
        fin.spans[i].finished_at # NoTime => fin.spans[i].status \in {"ok", "error"}

\* the same for the spans of the traces handle_event builds
FinishedOkOrErrorInRequests ==
    \A r \in Reqs : \A i \in DOMAIN Spans(r) :
        Spans(r)[i].finished_at # NoTime => Spans(r)[i].status \in {"ok", "error"}

\* C28: when respond has returned the step-limit message after 12 iterations,
\* no span of the request's trace, the llm.workflow span in particular, has
\* status error
StepLimitNotAnError ==
    \A r \in Reqs :
        (pc[r] \in ReturnedPcs /\ loc[r].response = StepLimitMessage
         /\ loc[r].iterations = StepLimit) =>
            \A i \in DOMAIN Spans(r) : Spans(r)[i].status # "error"

\* the same for every span but the llm.workflow span
StepLimitOtherSpansOk ==
    \A r \in Reqs :
        (pc[r] \in ReturnedPcs /\ loc[r].response = StepLimitMessage
         /\ loc[r].iterations = StepLimit) =>
            \A i \in DOMAIN Spans(r) :
                Spans(r)[i].name # "llm.workflow" => Spans(r)[i].status # "error"

\* the iterations of request r that dispatched read_file
ReadIterations(r) ==
    {calls[r][k].n : k \in {j \in DOMAIN calls[r] :
                                calls[r][j].op = "execute_tool" /\ calls[r][j].a = "read_file"
                                /\ calls[r][j].b = TextReadFile}}

\* the error of a lookup the host answered with status 404
NotFound(exc) == exc.type = "RuntimeError" /\ Contains(exc.msg, "(404)")

\* read_file sends the lookup at the requested ref, then at most the request
\* for the default branch and one lookup more, and it returns after one request
\* or after all three
ReadRequests(r) ==
    \A n \in ReadIterations(r) :
        LET sent == GithubOf(r, n)
        IN  /\ Len(sent) <= 3
            /\ \A k \in DOMAIN sent : sent[k].a = "GET"
            /\ Len(sent) >= 1 => sent[1].b = ContentsPath(loc[r].access, "a.py", "dev")
            /\ Len(sent) >= 2 => sent[2].b = RepoPath(loc[r].access)
            /\ Len(sent) = 3 =>
                    sent[3].b \in {ContentsPath(loc[r].access, "a.py", b) : b \in {"dev", "main"}}
            /\ Len(history[r]) >= n =>
                    /\ Len(sent) \in {1, 3}
                    /\ history[r][n].tool_result.v["path"] = S("a.py")
                    /\ history[r][n].tool_result.v["content"] \in {S("x = 1"), S("")}

\* the steps of read_file after an answer: a document is returned as text; a
\* not-found answer to the first lookup goes on to resolve the default branch
\* and any other error of it is raised as it is; the default branch resolved,
\* the lookup is sent there; the answer to that lookup is returned or raised
ReadFallsBack(r) ==
    (pc[r] = "read_file" /\ loc[r].at >= 1) =>
        LET l == loc[r]
            returns == pc'[r] = "execute_tool_inner" /\ loc'[r].ret_ok
                       /\ loc'[r].ret_val = file_text(l.ret_val)
            raises  == pc'[r] = "execute_tool_inner" /\ ~loc'[r].ret_ok
                       /\ loc'[r].ret_exc = l.ret_exc
        IN  /\ (l.at = 1 /\ l.ret_ok) => returns
            /\ (l.at = 1 /\ ~l.ret_ok /\ NotFound(l.ret_exc)) => pc'[r] = "get_default_branch"
            /\ (l.at = 1 /\ ~l.ret_ok /\ ~NotFound(l.ret_exc)) => raises
            /\ (l.at = 2 /\ l.ret_ok) =>
                    /\ pc'[r] = "request"
                    /\ loc'[r].call.method = "GET"
                    /\ loc'[r].call.path = ContentsPath(l.access, "a.py", l.ret_val.v)
            /\ (l.at = 2 /\ ~l.ret_ok) => raises
            /\ (l.at = 3 /\ l.ret_ok) => returns
            /\ (l.at = 3 /\ ~l.ret_ok) => raises
            /\ l.at <= 3

\* C29: read_file looks the file up at the requested ref; on a not-found
\* answer it resolves the default branch and repeats the lookup there once,
\* returning that content or failing with that lookup's error; any other error
\* of the first lookup is raised at once, with no further request
ReadFallback ==
    /\ [](\A r \in Reqs : ReadRequests(r))
    /\ [][\A r \in Reqs : ReadFallsBack(r)]_vars

ReadFallbackWitness ==
    \E r \in Reqs : \E n \in ReadIterations(r) :
        /\ Len(GithubOf(r, n)) = 3
        /\ Len(history[r]) >= n
        /\ history[r][n].tool_result.v["content"] = S("x = 1")

\* whether the serialization out of the data x differs, at some depth, from a
\* string that x has under a key without any of the four words and that is no
\* longer than the truncation length
RECURSIVE Altered(_, _)
Altered(x, out) ==
    CASE x.t = "dict" ->
            \E key \in DOMAIN x.v :
                \/ /\ ~SensitiveKey(key)
                   /\ x.v[key].t = "str"
                   /\ Len(x.v[key].v) <= TruncateAt
                   /\ out.v[key] # x.v[key]
                \/ Altered(x.v[key], out.v[key])
      [] x.t = "list" -> \E i \in DOMAIN x.v : Altered(x.v[i], out.v[i])
      [] OTHER -> FALSE

\* C30: a string of at most 2000 characters under a key that holds none of
\* the four words is in the document as it was given, whatever it reads
UnnamedValuesKept ==
    red.out # None =>
        /\ ~Altered(red.in, D(red.out.v.metadata))
        /\ ~Altered(red.in, D(red.out.v.trace.data))
        /\ ~Altered(red.in, D(red.out.v.trace.events[1].data))

\* the trace the serialization was given: the mapping as its metadata, as the
\* data of its root span and as the data of one event of it
Serialized ==
    [RequestTrace("req", red.in.v, 1) EXCEPT
        !.spans = <<[TraceSpan("request.lifecycle", red.in.v, 1) EXCEPT
                        !.events = <<TraceEvent("note", "info", red.in.v, 2)>>]>>]

MaxScopes == 3

\* how many scopes are entered in all
MaxScopeOps == 5

\* the spans given to with_trace: two spans of a trace, or None
ScopeSpans == {NoSpan, [req |-> 1, span |-> 1], [req |-> 1, span |-> 2]}


InitScope ==
    /\ WfIdle
    /\ PureIdle

\* tools.py:73-76  previous = self._active_trace_span; self._active_trace_span =
\* span; the body starts
scope_enter ==
    /\ scp.ops < MaxScopeOps
    /\ Len(scp.frames) < MaxScopes
    /\ \E span \in ScopeSpans :
        /\ scp' = [scp EXCEPT !.frames = Append(@, [previous |-> active, span |-> span]),
                              !.ops = @ + 1]
        /\ active' = span
    /\ UNCHANGED <<pc, loc, trace, history, now, token, said, persisted, calls, env,
                   fin, finlog, red, ext, lst>>

\* tools.py:77-78  the body of the innermost scope returns or raises: the
\* finally clause runs either way; the exit is noted with the span the scope
\* held as previous and the span it left active
scope_exit ==
    /\ scp.frames # <<>>
    /\ \E raised \in BOOLEAN :
        /\ active' = with_trace_exit_value(scp.frames[Len(scp.frames)].previous, active)
        /\ scp' = [scp EXCEPT
                !.frames = SubSeq(@, 1, Len(@) - 1),
                !.exited = [span |-> scp.frames[Len(scp.frames)].span,
                            before |-> scp.frames[Len(scp.frames)].previous,
                            after |-> with_trace_exit_value(
                                        scp.frames[Len(scp.frames)].previous, active),
                            raised |-> raised,
                            depth |-> Len(scp.frames)]]
    /\ UNCHANGED <<pc, loc, trace, history, now, token, said, persisted, calls, env,
                   fin, finlog, red, ext, lst>>

NextScope == scope_enter \/ scope_exit

SpecScope == InitScope /\ [][NextScope]_vars

\* the span of the innermost open scope, None when no scope is open
InnermostSpan == IF scp.frames = <<>> THEN NoSpan ELSE scp.frames[Len(scp.frames)].span

\* C32: with_trace restores the active span on exit: however the scopes nest
\* and whether the body returned or raised, the scope that exited last left
\* active the span that was active when it was entered; the active span is
\* always the span of the innermost open scope, and None once every scope has
\* exited.
ScopeRestored ==
    /\ scp.exited.after = scp.exited.before
    /\ active = InnermostSpan
    /\ \A i \in 1..Len(scp.frames) :
            scp.frames[i].previous = IF i = 1 THEN NoSpan ELSE scp.frames[i - 1].span

\* a scope nested MaxScopes deep has exited by raising, around it a scope with
\* another span, which is active again
ScopeRestoredWitness ==
    /\ scp.exited.raised
    /\ scp.exited.depth = MaxScopes
    /\ scp.exited.before # NoSpan
    /\ scp.exited.span # scp.exited.before
    /\ active = scp.exited.before

\* the positions of a request outside every with_trace scope: before the scope
\* of the access check, between two scopes, and after the last one
OutsideScopePcs ==
    {"idle", "respond", "respond_direct", "with_trace", "respond_loop", "respond_step",
     "generate_text", "respond_tool_done", "responded", "say", "except", "done", "failed",
     "crashed"}

\* in the workflow of one request the scopes follow one another, and no span is
\* active outside them, whether the scope before returned or raised
WorkflowScopesExited ==
    (\A r \in Reqs : pc[r] \in OutsideScopePcs) => active = NoSpan

\* a request has failed on the exception a tool raised inside its scope
WorkflowScopesExitedWitness ==
    \E r \in Reqs :
        /\ pc[r] = "failed"
        /\ \E k \in 1..Len(calls[r]) : calls[r][k].op = "execute_tool"
        /\ \E k \in 1..Len(calls[r]) : calls[r][k].op = "github"
        /\ active = NoSpan

\* span i of the tree sp received nothing after it was finished: its events and
\* its child spans are no later than its finish (the clock advances with every
\* operation on a trace)
Frozen(sp, i) ==
    sp[i].finished_at # NoTime =>
        /\ \A e \in DOMAIN sp[i].events : sp[i].events[e].timestamp <= sp[i].finished_at
        /\ \A c \in DOMAIN sp[i].children :
                sp[sp[i].children[c]].started_at <= sp[i].finished_at

\* C33: a finished span is frozen: no event and no child span is appended to a
\* span after its finish took effect, on any path of handle_event and of the
\* provider workflow; in particular the root receives no event after it is
\* finished.
FinishedSpanFrozen ==
    \A r \in Reqs : \A i \in DOMAIN trace[r].spans : Frozen(trace[r].spans, i)

\* what does hold: every span but the root is frozen once finished, and the
\* root receives nothing after its finish but the event request.error
FinishedSpanFrozenButRoot ==
    \A r \in Reqs : \A i \in DOMAIN trace[r].spans :
        /\ i # Root => Frozen(trace[r].spans, i)
        /\ i = Root /\ trace[r].spans[i].finished_at # NoTime =>
            /\ \A e \in DOMAIN trace[r].spans[i].events :
                    \/ trace[r].spans[i].events[e].timestamp <= trace[r].spans[i].finished_at
                    \/ trace[r].spans[i].events[e].name = "request.error"
            /\ \A c \in DOMAIN trace[r].spans[i].children :
                    trace[r].spans[trace[r].spans[i].children[c]].started_at
                        <= trace[r].spans[i].finished_at
=============================================================================
